---- MODULE Spec2Model ----
(***************************************************************************)
(* Request pipeline of the kuhi-api MCP server (api.ts): URL building,     *)
(* cache-key derivation, the response cache, fetchWithTimeout,             *)
(* fetchWithRetry, handleApiResponse and fetchResource.                    *)
(*                                                                         *)
(* Strings that the code builds character by character (URLs, cache keys)  *)
(* are sequences of one-character strings.  Opaque payloads (response      *)
(* bodies, JSON values) are TLA+ strings interpreted by lookup operators.  *)
(***************************************************************************)
EXTENDS Integers, Sequences, FiniteSets, TLC

-----------------------------------------------------------------------------
(* Program constants                                                       *)

RETRY_ATTEMPTS == 3
REQUEST_TIMEOUT == 30000
CACHE_DURATION == 300000
CACHE_SIZE_LIMIT == 50 * 1024 * 1024

API_BASE_URL ==
  <<"h","t","t","p","s",":","/","/","a","p","i",".","k","u","h","i",".","j","p">>

MONUMENTS == <<"/","m","o","n","u","m","e","n","t","s">>
POEMS == <<"/","p","o","e","m","s">>

-----------------------------------------------------------------------------
(* Bounds of the model                                                     *)

MaxParams == 2      \* entries in a query-parameter map
MaxCalls == 2       \* fetchResource calls started in one behaviour
MaxTicks == 3       \* idle clock advances in one behaviour
MaxOps == 2         \* direct cache operations in one behaviour

-----------------------------------------------------------------------------
(* Strings                                                                 *)

\* The characters that occur in parameter names and values, in UTF-16
\* code-unit order (the order Array.prototype.sort uses for strings).
CharOrder ==
  <<" ", "\"", "&", "0", "1", "5", "\\", "a", "c", "e", "f", "h", "i", "l", "m",
    "o", "r", "s", "t">>

CharCode(c) == CHOOSE i \in 1..Len(CharOrder) : CharOrder[i] = c

\* a < b as JavaScript compares strings (code units, shorter prefix first)
RECURSIVE StrLess(_, _)
StrLess(a, b) ==
  IF b = <<>> THEN FALSE
  ELSE IF a = <<>> THEN TRUE
  ELSE IF Head(a) = Head(b) THEN StrLess(Tail(a), Tail(b))
  ELSE CharCode(Head(a)) < CharCode(Head(b))

RECURSIVE Concat(_)
Concat(ss) == IF ss = <<>> THEN <<>> ELSE Head(ss) \o Concat(Tail(ss))

RECURSIVE Join(_, _)
Join(ss, sep) ==
  IF ss = <<>> THEN <<>>
  ELSE IF Len(ss) = 1 THEN Head(ss)
  ELSE Head(ss) \o sep \o Join(Tail(ss), sep)

-----------------------------------------------------------------------------
(* Parameter maps: a JavaScript object with string values, as the sequence *)
(* of its own entries in insertion order; Undefined is the absent argument *)

Undefined == [defined |-> FALSE, entries |-> <<>>]
Obj(es) == [defined |-> TRUE, entries |-> es]

ObjectKeys(params) == [i \in 1..Len(params.entries) |-> params.entries[i].k]

ObjGet(params, key) ==
  LET i == CHOOSE j \in 1..Len(params.entries) : params.entries[j].k = key
  IN  params.entries[i].v

\* Array.prototype.sort with the default comparator (insertion sort here;
\* the keys of one object are distinct, so the result is unique)
RECURSIVE InsertSorted(_, _)
InsertSorted(key, sorted) ==
  IF sorted = <<>> THEN <<key>>
  ELSE IF StrLess(key, Head(sorted)) THEN <<key>> \o sorted
  ELSE <<Head(sorted)>> \o InsertSorted(key, Tail(sorted))

RECURSIVE Sort(_)
Sort(keys) ==
  IF keys = <<>> THEN <<>> ELSE InsertSorted(Head(keys), Sort(Tail(keys)))

\* JSON.stringify of a string: quoted, with " and \ escaped
JSONEscapeChar(c) ==
  IF c = "\"" THEN <<"\\", "\"">>
  ELSE IF c = "\\" THEN <<"\\", "\\">>
  ELSE <<c>>

JSONStringifyString(s) ==
  <<"\"">> \o Concat([i \in 1..Len(s) |-> JSONEscapeChar(s[i])]) \o <<"\"">>

\* JSON.stringify of an object whose values are strings
JSONStringifyObject(params) ==
  <<"{">>
  \o Join([i \in 1..Len(params.entries) |->
             JSONStringifyString(params.entries[i].k) \o <<":">>
             \o JSONStringifyString(params.entries[i].v)], <<",">>)
  \o <<"}">>

\* the variant of getCacheKey that forgets to sort the keys
GetCacheKeyUnsorted(url, params) ==
  IF ~params.defined THEN url
  ELSE url \o <<":">> \o JSONStringifyObject(params)

getCacheKey(url, params) ==
  IF ~params.defined THEN url
  ELSE LET keys == Sort(ObjectKeys(params))
           sortedParams ==
             Obj([i \in 1..Len(keys) |-> [k |-> keys[i], v |-> ObjGet(params, keys[i])]])
       IN  url \o <<":">> \o JSONStringifyObject(sortedParams)

\* URLSearchParams serialisation of one character
\* (application/x-www-form-urlencoded)
UrlEncodeChar(c) ==
  IF c = " " THEN <<"+">>
  ELSE IF c = "\"" THEN <<"%", "2", "2">>
  ELSE IF c = "&" THEN <<"%", "2", "6">>
  ELSE IF c = "\\" THEN <<"%", "5", "C">>
  ELSE <<c>>

UrlEncode(s) == Concat([i \in 1..Len(s) |-> UrlEncodeChar(s[i])])

\* entries of params whose value is truthy (a non-empty string)
NonEmptyEntries(params) ==
  SelectSeq(params.entries, LAMBDA e : e.v # <<>>)

\* variant of buildApiUrl that appends every entry, empty values included
BuildApiUrlKeepsEmpty(endpoint, id, params) ==
  LET base == API_BASE_URL \o endpoint
      withId == IF id # <<>> THEN base \o <<"/">> \o id ELSE base
      kept == params.entries
      queryString ==
        Join([i \in 1..Len(kept) |->
                UrlEncode(kept[i].k) \o <<"=">> \o UrlEncode(kept[i].v)], <<"&">>)
  IN  IF params.defined /\ Len(params.entries) > 0 /\ queryString # <<>>
      THEN withId \o <<"?">> \o queryString
      ELSE withId

\* id is a string of digits, or <<>> for "no id"
buildApiUrl(endpoint, id, params) ==
  LET base == API_BASE_URL \o endpoint
      withId == IF id # <<>> THEN base \o <<"/">> \o id ELSE base
      kept == NonEmptyEntries(params)
      queryString ==
        Join([i \in 1..Len(kept) |->
                UrlEncode(kept[i].k) \o <<"=">> \o UrlEncode(kept[i].v)], <<"&">>)
  IN  IF params.defined /\ Len(params.entries) > 0 /\ queryString # <<>>
      THEN withId \o <<"?">> \o queryString
      ELSE withId

-----------------------------------------------------------------------------
(* JSON payloads.  A JSON value is represented by its canonical text, the  *)
(* text JSON.stringify produces for it.                                    *)

BodyValid == " [{\"id\":1,\"canonical_name\":\"a\",\"canonical_uri\":\"u\"}]\n"
RawValid == "[{\"id\":1,\"canonical_name\":\"a\",\"canonical_uri\":\"u\"}]"
ValidatedMonuments ==
  "[{\"id\":1,\"canonical_name\":\"a\",\"canonical_uri\":\"u\",\"monument_type\":null,\"monument_type_uri\":null,\"material\":null,\"material_uri\":null,\"created_at\":\"\",\"updated_at\":\"\",\"original_established_date\":null,\"hu_time_normalized\":null,\"interval_start\":null,\"interval_end\":null,\"uncertainty_note\":null}]"
RawMissingField == "[{\"id\":1}]"
JsonNull == "null"
\* an array of monuments whose serialisation is exactly CACHE_SIZE_LIMIT / 10
\* bytes long, and one that is one byte longer
BigValue == "[5242880 bytes]"
HugeValue == "[5242881 bytes]"

\* the response bodies the upstream sends in this model
BodyTexts == {"  ", "oops", BodyValid, RawMissingField, JsonNull}

\* String.prototype.trim, on the bodies above
Trim(text) ==
  IF text = BodyValid THEN RawValid ELSE IF text = "  " THEN "" ELSE text

\* JSON.parse: the value, or a SyntaxError
JSONParse(text) ==
  IF text = BodyValid THEN [ok |-> TRUE, value |-> RawValid]
  ELSE IF text \in {RawMissingField, JsonNull} THEN [ok |-> TRUE, value |-> text]
  ELSE [ok |-> FALSE, value |-> "Unexpected token"]

\* zod: schema.parse(value) strips unknown keys and fills the defaults
SchemaParse(schema, value) ==
  IF schema = "MonumentsResponseSchema" /\ value = RawValid
  THEN [ok |-> TRUE, value |-> ValidatedMonuments]
  ELSE [ok |-> FALSE, value |-> value]

\* Buffer.byteLength(JSON.stringify(data), "utf8")
ByteLength(value) ==
  CASE value = RawValid -> 51
    [] value = ValidatedMonuments -> 290
    [] value = RawMissingField -> 10
    [] value = JsonNull -> 4
    [] value = BigValue -> CACHE_SIZE_LIMIT \div 10
    [] value = HugeValue -> CACHE_SIZE_LIMIT \div 10 + 1

\* JavaScript truthiness of a JSON value (objects and arrays are truthy)
Truthy(value) == value \notin {"null", "false", "0", "\"\""}

-----------------------------------------------------------------------------
(* The response cache: a Map in insertion order, as a sequence of entries  *)
(* [key, data, timestamp, size, lastAccessed]                              *)

CacheIndex(c, key) ==
  IF \E i \in 1..Len(c) : c[i].key = key
  THEN CHOOSE i \in 1..Len(c) : c[i].key = key
  ELSE 0

CacheHas(c, key) == CacheIndex(c, key) # 0

RemoveAt(c, i) == SubSeq(c, 1, i - 1) \o SubSeq(c, i + 1, Len(c))

\* getFromCache whose hits renew the entry (sliding expiry)
GetFromCacheSliding(c, ccs, key, t) ==
  LET i == CacheIndex(c, key)
  IN  IF i = 0
      THEN [cache |-> c, currentCacheSize |-> ccs, value |-> JsonNull, outcome |-> "miss"]
      ELSE IF t - c[i].timestamp > CACHE_DURATION
      THEN [cache |-> RemoveAt(c, i), currentCacheSize |-> ccs - c[i].size,
            value |-> JsonNull, outcome |-> "expired"]
      ELSE [cache |-> [c EXCEPT ![i].lastAccessed = t, ![i].timestamp = t],
            currentCacheSize |-> ccs, value |-> c[i].data, outcome |-> "hit"]

\* getFromCache that never expires an entry
GetFromCacheNoExpiry(c, ccs, key, t) ==
  LET i == CacheIndex(c, key)
  IN  IF i = 0
      THEN [cache |-> c, currentCacheSize |-> ccs, value |-> JsonNull, outcome |-> "miss"]
      ELSE [cache |-> [c EXCEPT ![i].lastAccessed = t],
            currentCacheSize |-> ccs, value |-> c[i].data, outcome |-> "hit"]

\* getFromCache(key) at clock value t: the new cache, the new size counter
\* and the returned value (null when absent or expired)
getFromCache(c, ccs, key, t) ==
  LET i == CacheIndex(c, key)
  IN  IF i = 0
      THEN [cache |-> c, currentCacheSize |-> ccs, value |-> JsonNull, outcome |-> "miss"]
      ELSE IF t - c[i].timestamp > CACHE_DURATION
      THEN [cache |-> RemoveAt(c, i), currentCacheSize |-> ccs - c[i].size,
            value |-> JsonNull, outcome |-> "expired"]
      ELSE [cache |-> [c EXCEPT ![i].lastAccessed = t],
            currentCacheSize |-> ccs, value |-> c[i].data, outcome |-> "hit"]

\* the scan of a loop that evicts in insertion order
OldestIndexFirstInserted(c, t) ==
  LET cands == {i \in 1..Len(c) : c[i].lastAccessed < t}
  IN  IF cands = {} THEN 0
      ELSE CHOOSE i \in cands : \A j \in cands : i <= j

\* the scan of the eviction loop: the first entry with the least lastAccessed
\* among those accessed strictly before t, or 0
OldestIndex(c, t) ==
  LET cands == {i \in 1..Len(c) : c[i].lastAccessed < t}
  IN  IF cands = {} THEN 0
      ELSE CHOOSE i \in cands :
             \A j \in cands :
               \/ c[i].lastAccessed < c[j].lastAccessed
               \/ (c[i].lastAccessed = c[j].lastAccessed /\ i <= j)

\* the eviction loop of setCache; `evicted` lists the deleted entries in the
\* order of their deletion
RECURSIVE EvictLoop(_, _, _, _)
EvictLoop(c, ccs, size, t) ==
  IF ccs + size > CACHE_SIZE_LIMIT /\ Len(c) > 0
  THEN LET i == OldestIndex(c, t)
       IN  IF i = 0 THEN [cache |-> c, currentCacheSize |-> ccs, evicted |-> <<>>]
           ELSE LET rest == EvictLoop(RemoveAt(c, i), ccs - c[i].size, size, t)
                IN  [rest EXCEPT !.evicted = <<c[i]>> \o @]
  ELSE [cache |-> c, currentCacheSize |-> ccs, evicted |-> <<>>]

\* setCache without the limit on the size of one entry
SetCacheNoEntryLimit(c, ccs, key, data, t) ==
  LET size == ByteLength(data)
      ev == EvictLoop(c, ccs, size, t)
      entry == [key |-> key, data |-> data, timestamp |-> t,
                size |-> size, lastAccessed |-> t]
      i == CacheIndex(ev.cache, key)
  IN  [cache |-> IF i = 0 THEN Append(ev.cache, entry)
                 ELSE [ev.cache EXCEPT ![i] = entry],
       currentCacheSize |-> ev.currentCacheSize + size,
       evicted |-> ev.evicted]

\* setCache(key, data) at clock value t
setCache(c, ccs, key, data, t) ==
  LET size == ByteLength(data)
  IN  IF size * 10 > CACHE_SIZE_LIMIT
      THEN [cache |-> c, currentCacheSize |-> ccs, evicted |-> <<>>]
      ELSE LET ev == EvictLoop(c, ccs, size, t)
               entry == [key |-> key, data |-> data, timestamp |-> t,
                         size |-> size, lastAccessed |-> t]
               i == CacheIndex(ev.cache, key)
           IN  [cache |-> IF i = 0 THEN Append(ev.cache, entry)
                          ELSE [ev.cache EXCEPT ![i] = entry],
                currentCacheSize |-> ev.currentCacheSize + size,
                evicted |-> ev.evicted]

-----------------------------------------------------------------------------
(* Errors: the name and the message (a sequence of message fragments)      *)

Err(name, message) == [name |-> name, message |-> message]

NoError == Err("", <<>>)
\* what fetch() rejects with
FetchFailed == Err("TypeError", <<"fetch failed">>)
AbortError == Err("AbortError", <<"This operation was aborted">>)
\* what response.text() rejects with when the body stream breaks
BodyStreamError == Err("TypeError", <<"terminated">>)

\* the delay of the variant that doubles from the first retry on
DelayDoubled(attempt) ==
  IF 1000 * 2 ^ attempt < 5000 THEN 1000 * 2 ^ attempt ELSE 5000

\* Math.min(1000 * 2 ** (attempt - 1), 5000)
Delay(attempt) ==
  IF 1000 * 2 ^ (attempt - 1) < 5000 THEN 1000 * 2 ^ (attempt - 1) ELSE 5000

\* the catch block of fetchWithTimeout
fetchWithTimeoutCatch(error, timeoutMs) ==
  IF error.name = "AbortError"
  THEN Err("Error", <<"Request timeout after ", ToString(timeoutMs), "ms">>)
  ELSE error

\* the error fetchWithRetry throws after its loop
RetriesExhausted(lastError) ==
  Err("Error",
      <<"Failed after ", ToString(RETRY_ATTEMPTS), " attempts: ">> \o lastError.message)

-----------------------------------------------------------------------------
(* Requests made through fetchResource by the entity fetchers              *)

Limit == <<"l","i","m","i","t">>
Offset == <<"o","f","f","s","e","t">>
Search == <<"s","e","a","r","c","h">>

Requests ==
  << \* fetchMonuments({limit: 10, offset: 0})
     [endpoint |-> MONUMENTS, schema |-> "MonumentsResponseSchema", id |-> <<>>,
      params |-> Obj(<<[k |-> Limit, v |-> <<"1","0">>], [k |-> Offset, v |-> <<"0">>]>>),
      skipValidation |-> FALSE, fetcher |-> "fetchMonuments"],
     \* fetchMonuments({offset: 0, limit: 10})
     [endpoint |-> MONUMENTS, schema |-> "MonumentsResponseSchema", id |-> <<>>,
      params |-> Obj(<<[k |-> Offset, v |-> <<"0">>], [k |-> Limit, v |-> <<"1","0">>]>>),
      skipValidation |-> FALSE, fetcher |-> "fetchMonuments"],
     \* fetchPoems()
     [endpoint |-> POEMS, schema |-> "none", id |-> <<>>,
      params |-> Undefined, skipValidation |-> TRUE, fetcher |-> "fetchPoems"],
     \* fetchMonuments({limit: 50}), from get_haiku_monuments_geojson
     [endpoint |-> MONUMENTS, schema |-> "MonumentsResponseSchema", id |-> <<>>,
      params |-> Obj(<<[k |-> Limit, v |-> <<"5","0">>]>>),
      skipValidation |-> FALSE, fetcher |-> "fetchMonuments"],
     \* fetchMonuments({limit: 100, offset: 0}), the first batch of
     \* fetchAllMonuments(), from discover_nearby_monuments
     [endpoint |-> MONUMENTS, schema |-> "MonumentsResponseSchema", id |-> <<>>,
      params |-> Obj(<<[k |-> Limit, v |-> <<"1","0","0">>], [k |-> Offset, v |-> <<"0">>]>>),
      skipValidation |-> FALSE, fetcher |-> "fetchMonuments"] >>

\* the requests the entity fetchers are called with directly
DirectRequests == {1, 2, 3}

\* Tool handlers that await one entity fetch: the request of that fetch and
\* whether the handler body is inside try/catch
Tools ==
  << [name |-> "get_haiku_monuments_geojson", req |-> 4, guarded |-> FALSE],
     [name |-> "discover_nearby_monuments", req |-> 5, guarded |-> TRUE] >>

UrlOf(r) == buildApiUrl(Requests[r].endpoint, Requests[r].id, Requests[r].params)
CacheKeyOf(r) == getCacheKey(UrlOf(r), Requests[r].params)

\* the same key-value pairs, whatever the insertion order
SamePairs(p1, p2) ==
  /\ p1.defined = p2.defined
  /\ {p1.entries[i] : i \in 1..Len(p1.entries)} = {p2.entries[i] : i \in 1..Len(p2.entries)}

\* two requests that differ at most in the order of their parameters
SameRequest(r1, r2) ==
  /\ Requests[r1].endpoint = Requests[r2].endpoint
  /\ Requests[r1].id = Requests[r2].id
  /\ SamePairs(Requests[r1].params, Requests[r2].params)

Endpoints == {MONUMENTS, POEMS}

Statuses == {200, 500}
ResponseOk(status) == status >= 200 /\ status <= 299

-----------------------------------------------------------------------------
(* State                                                                   *)

Tasks == {"t1", "t2"}

VARIABLES
  now,                \* Date.now()
  ticks,              \* number of Tick steps taken
  calls,              \* number of fetchResource calls started
  cache,              \* the Map `cache`, in insertion order
  currentCacheSize,
  validationMetrics,
  task,               \* per logical task: the locals of its call in progress
  probe               \* arguments and results of a function applied on its own

vars ==
  <<now, ticks, calls, cache, currentCacheSize, validationMetrics, task, probe>>

NoResult == [kind |-> "none", value |-> "", status |-> 0, error |-> NoError]
Resolved(value) == [kind |-> "ok", value |-> value, status |-> 0, error |-> NoError]
ResolvedResponse(status) == [kind |-> "ok", value |-> "", status |-> status, error |-> NoError]
Rejected(error) == [kind |-> "err", value |-> "", status |-> 0, error |-> error]

\* errors thrown by the code that runs on the value fetchResource returns
ZodError == Err("ZodError", <<"Required">>)
NullDereference == Err("TypeError", <<"Cannot read properties of null">>)

\* What the entity fetcher does with the settled fetchResource promise:
\* fetchMonuments returns raw.map(normalizeMonument), where normalizeMonument
\* parses each element with MonumentSchema again; fetchPoems returns
\* data.poems.  A rejection passes through.
EntityResult(fetcher, result) ==
  IF result.kind # "ok" THEN result
  ELSE IF result.value = JsonNull THEN Rejected(NullDereference)
  ELSE IF fetcher = "fetchMonuments"
  THEN IF result.value \in {RawValid, ValidatedMonuments}
       THEN Resolved(ValidatedMonuments)
       ELSE Rejected(ZodError)
  ELSE Resolved("undefined")

NoHandlerResult == [kind |-> "none", text |-> <<>>, error |-> NoError]

\* What the tool handler does with the settled entity fetch: a text content
\* block on success; on failure the catch block, when there is one, turns the
\* error into a text content block, else the handler's promise rejects.
HandlerResult(tool, outer) ==
  IF tool = "none" THEN NoHandlerResult
  ELSE IF outer.kind = "ok" THEN [kind |-> "content", text |-> <<outer.value>>, error |-> NoError]
  ELSE IF \E i \in 1..Len(Tools) : Tools[i].name = tool /\ Tools[i].guarded
  THEN [kind |-> "content", text |-> <<"エラー: ">> \o outer.error.message, error |-> NoError]
  ELSE [kind |-> "rejected", text |-> <<>>, error |-> outer.error]

\* the outcome of response.text()
TextOk(text) == [ok |-> TRUE, text |-> text, error |-> NoError]
TextFailed(error) == [ok |-> FALSE, text |-> "", error |-> error]
NoBody == [ok |-> FALSE, text |-> "", error |-> NoError]

IdleTask ==
  [pc |-> "idle",          \* idle, inflight, waiting, body, done
   entry |-> "none",       \* the function called: fetchResource or fetchWithRetry
   req |-> 0,              \* index in Requests (fetchResource)
   signal |-> "none",      \* whether fetchWithRetry was given an AbortSignal
   aborted |-> FALSE,      \* the caller's cancellation signal is aborted
   attempt |-> 0,
   lastError |-> NoError,  \* kept after a throw of fetchWithRetry, as history
   ctrlAborted |-> FALSE,  \* controller.signal.aborted of the attempt in flight
   startedAt |-> 0,        \* when the attempt in flight was issued
   wakeAt |-> 0,           \* when the backoff timer is due
   status |-> 0,           \* status of the response in hand
   result |-> NoResult,
   outer |-> NoResult,     \* what the entity fetcher calling fetchResource gives
   tool |-> "none",        \* the tool whose handler made the call
   handler |-> NoHandlerResult,   \* what that handler gives
   \* history, for stating properties
   requests |-> 0,         \* calls of fetch()
   waits |-> <<>>,         \* delays passed to setTimeout by fetchWithRetry
   failedAt |-> 0,         \* when the last failed attempt failed
   cause |-> "none",       \* why the latest attempt failed: network, timer, signal
   answeredAt |-> 0,       \* the attempt that fetch() resolved, 0 if none
   answer |-> 0,           \* the status of that response
   body |-> NoBody,        \* what response.text() gave
   requestsAtAbort |-> 0,  \* requests when the caller's signal was aborted
   abortedInFlight |-> FALSE,
   get |-> "none",         \* outcome of getFromCache: miss, hit, expired
   got |-> JsonNull,       \* value returned by getFromCache
   sawFreshEquivalent |-> FALSE]

InitMetrics ==
  [totalRequests |-> 0, validationFailures |-> 0, lastFailureAt |-> -1,
   failuresByEndpoint |-> [e \in Endpoints |-> 0]]

NoProbe == [fn |-> "none"]

InitProgram ==
  /\ now = 0
  /\ ticks = 0
  /\ calls = 0
  /\ cache = <<>>
  /\ currentCacheSize = 0
  /\ validationMetrics = InitMetrics
  /\ task = [t \in Tasks |-> IdleTask]

Init == InitProgram /\ probe = NoProbe

-----------------------------------------------------------------------------
(* fetchWithTimeout and fetchWithRetry                                     *)

\* One iteration of the loop of fetchWithRetry up to the await of fetch():
\* fetchWithTimeout creates its controller, aborts it at once when the given
\* signal is already aborted, arms the timer and calls fetch.
StartAttempt(rec, k, t) ==
  [rec EXCEPT !.pc = "inflight",
              !.attempt = k,
              !.startedAt = t,
              !.ctrlAborted = (rec.signal = "ext" /\ rec.aborted),
              !.cause = IF rec.signal = "ext" /\ rec.aborted THEN "signal" ELSE "none",
              !.requests = @ + 1]

\* the call returns: its locals are gone, the history fields stay
Finish(rec, result) ==
  [rec EXCEPT !.pc = "done", !.result = result,
              !.outer = IF rec.entry = "fetchResource"
                        THEN EntityResult(Requests[rec.req].fetcher, result)
                        ELSE NoResult,
              !.handler = IF rec.entry = "fetchResource"
                          THEN HandlerResult(rec.tool,
                                 EntityResult(Requests[rec.req].fetcher, result))
                          ELSE NoHandlerResult,
              !.attempt = 0, !.lastError = NoError, !.ctrlAborted = FALSE,
              !.startedAt = 0, !.wakeAt = 0, !.failedAt = 0, !.status = 0]

\* fetchWithRetry throws (and with it the calling fetchResource rejects)
Throw(rec, lastError, error) ==
  [Finish(rec, Rejected(error)) EXCEPT !.lastError = lastError]

Backoff(rec, error, t) ==
  [rec EXCEPT !.lastError = error,
              !.pc = "waiting",
              !.failedAt = t,
              !.wakeAt = t + Delay(rec.attempt),
              !.waits = Append(@, Delay(rec.attempt))]

\* catch block of fetchWithRetry that ignores the caller's signal
AttemptFailedNoAbortCheck(rec, error, t) ==
  IF rec.attempt = RETRY_ATTEMPTS
  THEN Throw(rec, error, RetriesExhausted(error))
  ELSE Backoff(rec, error, t)

\* catch block of fetchWithRetry that gives up one attempt too late
AttemptFailedOneMore(rec, error, t) ==
  IF error.name = "AbortError" \/ (rec.signal = "ext" /\ rec.aborted)
  THEN Throw(rec, error, error)
  ELSE IF rec.attempt > RETRY_ATTEMPTS
  THEN Throw(rec, error, RetriesExhausted(error))
  ELSE Backoff(rec, error, t)

\* The catch block of fetchWithRetry, entered with the error thrown by
\* fetchWithTimeout for the attempt in flight.
AttemptFailed(rec, error, t) ==
  IF error.name = "AbortError" \/ (rec.signal = "ext" /\ rec.aborted)
  THEN Throw(rec, error, error)
  ELSE IF rec.attempt = RETRY_ATTEMPTS
  THEN Throw(rec, error, RetriesExhausted(error))
  ELSE Backoff(rec, error, t)

\* fetch() resolved: what fetchWithRetry and its caller do with the response
Answered(rec, status) ==
  LET seen == [rec EXCEPT !.answeredAt = rec.attempt, !.answer = status,
                          !.cause = "none"]
  IN  IF rec.entry = "fetchWithRetry"
      THEN Finish(seen, ResolvedResponse(status))
      ELSE [seen EXCEPT !.pc = "body", !.status = status]

\* fetchWithRetry that treats a 5xx response as a failed attempt
FetchResolveRetriesServerErrors(t, status) ==
  /\ task[t].pc = "inflight"
  /\ ~task[t].ctrlAborted
  /\ task' = [task EXCEPT ![t] =
       IF status >= 500
       THEN AttemptFailed([@ EXCEPT !.answeredAt = task[t].attempt, !.answer = status],
                          Err("Error", <<"HTTP ", ToString(status)>>), now)
       ELSE Answered(@, status)]
  /\ UNCHANGED <<now, ticks, calls, cache, currentCacheSize, validationMetrics, probe>>

\* fetch() resolves with a response: fetchWithTimeout clears the timer and
\* fetchWithRetry returns the response, whatever its status.  fetchResource
\* goes on to handleApiResponse, which awaits response.text().
FetchResolve(t, status) ==
  /\ task[t].pc = "inflight"
  /\ ~task[t].ctrlAborted
  /\ task' = [task EXCEPT ![t] = Answered(@, status)]
  /\ UNCHANGED <<now, ticks, calls, cache, currentCacheSize, validationMetrics, probe>>

\* fetch() rejects with a transport failure
FetchReject(t) ==
  /\ task[t].pc = "inflight"
  /\ ~task[t].ctrlAborted
  /\ task' = [task EXCEPT ![t] =
       AttemptFailed([@ EXCEPT !.cause = "network"],
                     fetchWithTimeoutCatch(FetchFailed, REQUEST_TIMEOUT), now)]
  /\ UNCHANGED <<now, ticks, calls, cache, currentCacheSize, validationMetrics, probe>>

\* the timer of fetchWithTimeout fires, at or after its due time
TimerFire(t) ==
  /\ task[t].pc = "inflight"
  /\ ~task[t].ctrlAborted
  /\ now >= task[t].startedAt + REQUEST_TIMEOUT
  /\ task' = [task EXCEPT ![t].ctrlAborted = TRUE, ![t].cause = "timer"]
  /\ UNCHANGED <<now, ticks, calls, cache, currentCacheSize, validationMetrics, probe>>

\* The caller's cancellation signal is aborted.  The listener installed by
\* fetchWithTimeout aborts the controller of the attempt in flight, when
\* fetchWithRetry was given the signal.
SignalAbort(t) ==
  /\ task[t].pc \in {"inflight", "waiting"}
  /\ ~task[t].aborted
  /\ task' = [task EXCEPT ![t] =
       [@ EXCEPT !.aborted = TRUE,
                 !.requestsAtAbort = task[t].requests,
                 !.abortedInFlight = (task[t].pc = "inflight"),
                 !.ctrlAborted =
                    \/ task[t].ctrlAborted
                    \/ (task[t].signal = "ext" /\ task[t].pc = "inflight"),
                 !.cause =
                    IF task[t].signal = "ext" /\ task[t].pc = "inflight"
                       /\ ~task[t].ctrlAborted
                    THEN "signal" ELSE task[t].cause]]
  /\ UNCHANGED <<now, ticks, calls, cache, currentCacheSize, validationMetrics, probe>>

\* fetch() rejects with an AbortError because controller.signal is aborted
AbortReject(t) ==
  /\ task[t].pc = "inflight"
  /\ task[t].ctrlAborted
  /\ task' = [task EXCEPT ![t] =
       AttemptFailed(@, fetchWithTimeoutCatch(AbortError, REQUEST_TIMEOUT), now)]
  /\ UNCHANGED <<now, ticks, calls, cache, currentCacheSize, validationMetrics, probe>>

\* the backoff timer fires, at or after its due time; the loop goes on
WakeUp(t) ==
  /\ task[t].pc = "waiting"
  /\ now >= task[t].wakeAt
  /\ task' = [task EXCEPT ![t] = StartAttempt(@, task[t].attempt + 1, now)]
  /\ UNCHANGED <<now, ticks, calls, cache, currentCacheSize, validationMetrics, probe>>

\* time passes until the pending timer of the call is due
TimerDue(t) ==
  /\ \/ task[t].pc = "waiting" /\ now < task[t].wakeAt /\ now' = task[t].wakeAt
     \/ /\ task[t].pc = "inflight"
        /\ now < task[t].startedAt + REQUEST_TIMEOUT
        /\ now' = task[t].startedAt + REQUEST_TIMEOUT
  /\ UNCHANGED <<ticks, calls, cache, currentCacheSize, validationMetrics, task, probe>>

-----------------------------------------------------------------------------
(* handleApiResponse and fetchResource                                     *)

Returned(value) == [ok |-> TRUE, value |-> value, error |-> NoError]
Thrown(error) == [ok |-> FALSE, value |-> "", error |-> error]

ApiError(status, errorText) ==
  Err("Error", <<"API Error (", ToString(status), "): ", errorText>>)

ParseFailure(cause) ==
  Err("Error", <<"Failed to parse response: ">> \o cause.message)

\* the try block of handleApiResponse
ParseBody(body) ==
  IF ~body.ok THEN Thrown(ParseFailure(body.error))
  ELSE IF Trim(body.text) = ""
  THEN Thrown(ParseFailure(Err("Error", <<"Empty response body">>)))
  ELSE IF JSONParse(body.text).ok THEN Returned(JSONParse(body.text).value)
  ELSE Thrown(ParseFailure(Err("SyntaxError", <<JSONParse(body.text).value>>)))

\* handleApiResponse(response), given the status and what response.text() gives
handleApiResponse(status, body) ==
  IF ~ResponseOk(status)
  THEN Thrown(ApiError(status, IF body.ok THEN body.text ELSE "Unknown error"))
  ELSE ParseBody(body)

\* validationMetrics after a failed schema.parse for the endpoint
RecordFailure(m, endpoint, t) ==
  [m EXCEPT !.validationFailures = @ + 1,
            !.lastFailureAt = t,
            !.failuresByEndpoint[endpoint] = @ + 1]

\* fetchResource from its first line to the await of fetch(): build the URL
\* and the cache key, look the key up, return on a truthy cached value, else
\* call fetchWithRetry(url) - without a signal.  `tool` is the tool whose
\* handler makes the call through the entity fetcher, "none" for a direct call.
StartFetch(t, r, tool) ==
  /\ task[t].pc \in {"idle", "done"}
  /\ calls < MaxCalls
  /\ calls' = calls + 1
  /\ LET cacheKey == CacheKeyOf(r)
         cachedData == getFromCache(cache, currentCacheSize, cacheKey, now)
         rec == [IdleTask EXCEPT
                   !.entry = "fetchResource",
                   !.req = r,
                   !.tool = tool,
                   !.get = cachedData.outcome,
                   !.got = cachedData.value,
                   !.sawFreshEquivalent =
                      \E r2 \in 1..Len(Requests) :
                        /\ SameRequest(r, r2)
                        /\ CacheHas(cache, CacheKeyOf(r2))
                        /\ LET e == cache[CacheIndex(cache, CacheKeyOf(r2))]
                           IN  now - e.timestamp < CACHE_DURATION /\ Truthy(e.data)]
     IN  /\ cache' = cachedData.cache
         /\ currentCacheSize' = cachedData.currentCacheSize
         /\ task' = [task EXCEPT ![t] =
              IF Truthy(cachedData.value)
              THEN Finish(rec, Resolved(cachedData.value))
              ELSE StartAttempt(rec, 1, now)]
  /\ UNCHANGED <<now, ticks, validationMetrics, probe>>

FetchResourceStart(t, r) == StartFetch(t, r, "none")

\* a client invokes the tool: its handler runs up to the await of its fetch
InvokeTool(t, i) == calls = 0 /\ StartFetch(t, Tools[i].req, Tools[i].name)

\* variant of BodySettles: the request is counted before handleApiResponse
\* accepts the response
BodySettlesCountsFirst(t, body) ==
  /\ task[t].pc = "body"
  /\ LET r == Requests[task[t].req]
         cacheKey == CacheKeyOf(task[t].req)
         rec == [task[t] EXCEPT !.body = body]
         handled == handleApiResponse(task[t].status, body)
         rawData == handled.value
         validate == r.schema # "none" /\ ~r.skipValidation
         parsed == SchemaParse(r.schema, rawData)
         stored == IF validate /\ parsed.ok THEN parsed.value ELSE rawData
         put == setCache(cache, currentCacheSize, cacheKey, stored, now)
     IN  IF ~handled.ok
         THEN /\ task' = [task EXCEPT ![t] = Finish(rec, Rejected(handled.error))]
              /\ validationMetrics' = [validationMetrics EXCEPT !.totalRequests = @ + 1]
              /\ UNCHANGED <<cache, currentCacheSize>>
         ELSE /\ validationMetrics' =
                   IF validate /\ ~parsed.ok
                   THEN RecordFailure([validationMetrics EXCEPT !.totalRequests = @ + 1],
                                      r.endpoint, now)
                   ELSE [validationMetrics EXCEPT !.totalRequests = @ + 1]
              /\ cache' = put.cache
              /\ currentCacheSize' = put.currentCacheSize
              /\ task' = [task EXCEPT ![t] = Finish(rec, Resolved(stored))]
  /\ UNCHANGED <<now, ticks, calls, probe>>

\* response.text() settles: the rest of handleApiResponse and of fetchResource
\* (metrics, schema.parse, setCache) and of its callers, which run without a
\* further await
BodySettles(t, body) ==
  /\ task[t].pc = "body"
  /\ LET r == Requests[task[t].req]
         cacheKey == CacheKeyOf(task[t].req)
         rec == [task[t] EXCEPT !.body = body]
         handled == handleApiResponse(task[t].status, body)
         rawData == handled.value
         validate == r.schema # "none" /\ ~r.skipValidation
         parsed == SchemaParse(r.schema, rawData)
         stored == IF validate /\ parsed.ok THEN parsed.value ELSE rawData
         put == setCache(cache, currentCacheSize, cacheKey, stored, now)
     IN  IF ~handled.ok
         THEN /\ task' = [task EXCEPT ![t] = Finish(rec, Rejected(handled.error))]
              /\ UNCHANGED <<cache, currentCacheSize, validationMetrics>>
         ELSE /\ validationMetrics' =
                   IF validate /\ ~parsed.ok
                   THEN RecordFailure([validationMetrics EXCEPT !.totalRequests = @ + 1],
                                      r.endpoint, now)
                   ELSE [validationMetrics EXCEPT !.totalRequests = @ + 1]
              /\ cache' = put.cache
              /\ currentCacheSize' = put.currentCacheSize
              /\ task' = [task EXCEPT ![t] = Finish(rec, Resolved(stored))]
  /\ UNCHANGED <<now, ticks, calls, probe>>

BodyRead(t) == \E text \in BodyTexts : BodySettles(t, TextOk(text))

BodyFails(t) == BodySettles(t, TextFailed(BodyStreamError))

\* time passes while nothing else happens
TickSteps == {1, CACHE_DURATION - 1}

Tick ==
  /\ ticks < MaxTicks
  /\ \E d \in TickSteps : now' = now + d
  /\ ticks' = ticks + 1
  /\ UNCHANGED <<calls, cache, currentCacheSize, validationMetrics, task, probe>>

\* Spec: resource fetches made one after the other by one logical task
Caller == "t1"

Next ==
  \/ \E r \in DirectRequests : FetchResourceStart(Caller, r)
  \/ \E status \in Statuses : FetchResolve(Caller, status)
  \/ FetchReject(Caller)
  \/ TimerFire(Caller)
  \/ AbortReject(Caller)
  \/ WakeUp(Caller)
  \/ BodyRead(Caller)
  \/ BodyFails(Caller)
  \/ Tick

Spec == Init /\ [][Next]_vars

-----------------------------------------------------------------------------
(* fetchWithRetry on its own: one call, with or without a cancellation     *)
(* signal, which may already be aborted                                    *)

CallFetchWithRetry(t, signal, aborted) ==
  /\ task[t].pc = "idle"
  /\ task' = [task EXCEPT ![t] =
       StartAttempt([IdleTask EXCEPT !.entry = "fetchWithRetry",
                                     !.signal = signal,
                                     !.aborted = aborted], 1, now)]
  /\ UNCHANGED <<now, ticks, calls, cache, currentCacheSize, validationMetrics, probe>>

NextRetry ==
  \/ \E signal \in {"none", "ext"}, aborted \in BOOLEAN :
       (signal = "none" => ~aborted) /\ CallFetchWithRetry(Caller, signal, aborted)
  \/ \E status \in Statuses : FetchResolve(Caller, status)
  \/ FetchReject(Caller)
  \/ TimerFire(Caller)
  \/ SignalAbort(Caller)
  \/ AbortReject(Caller)
  \/ WakeUp(Caller)
  \/ TimerDue(Caller)

SpecRetry == Init /\ [][NextRetry]_vars

-----------------------------------------------------------------------------
(* One tool invocation that fetches a resource and may be cancelled by the *)
(* client while it runs                                                    *)

NextInvocation ==
  \/ \E i \in 1..Len(Tools) : InvokeTool(Caller, i)
  \/ \E status \in Statuses : FetchResolve(Caller, status)
  \/ FetchReject(Caller)
  \/ TimerFire(Caller)
  \/ SignalAbort(Caller)
  \/ AbortReject(Caller)
  \/ WakeUp(Caller)
  \/ BodyRead(Caller)
  \/ BodyFails(Caller)
  \/ TimerDue(Caller)

SpecInvocation == Init /\ [][NextInvocation]_vars

-----------------------------------------------------------------------------
(* getCacheKey on its own: one url, two parameter maps                     *)

ParamNames == {Limit, Offset, Search}
ParamValues == {<<>>, <<"1", "0">>, <<"a", "\"">>}
ParamEntries == [k : ParamNames, v : ParamValues]

DistinctKeys(es) == \A i, j \in 1..Len(es) : es[i].k = es[j].k => i = j

ParamMaps ==
  {Undefined} \cup
  {Obj(es) : es \in {e \in UNION {[1..n -> ParamEntries] : n \in 0..MaxParams} :
                       DistinctKeys(e)}}

KeyUrls == {buildApiUrl(MONUMENTS, <<>>, Undefined), buildApiUrl(MONUMENTS, <<"1">>, Undefined)}

InitKey ==
  /\ InitProgram
  /\ probe \in [fn : {"getCacheKey"}, url : KeyUrls, p1 : ParamMaps, p2 : ParamMaps,
                key1 : {<<>>}, key2 : {<<>>}, done : {FALSE}]

ComputeKeys ==
  /\ probe.fn = "getCacheKey"
  /\ ~probe.done
  /\ probe' = [probe EXCEPT !.key1 = getCacheKey(probe.url, probe.p1),
                            !.key2 = getCacheKey(probe.url, probe.p2),
                            !.done = TRUE]
  /\ UNCHANGED <<now, ticks, calls, cache, currentCacheSize, validationMetrics, task>>

NextKey == ComputeKeys

SpecKey == InitKey /\ [][NextKey]_vars

-----------------------------------------------------------------------------
(* buildApiUrl on its own: one endpoint, an optional id, one parameter map  *)

UrlValues == ParamValues \cup {<<"a", " ", "&">>}
UrlEntries == [k : ParamNames, v : UrlValues]

UrlParamMaps ==
  {Undefined} \cup
  {Obj(es) : es \in {e \in UNION {[1..n -> UrlEntries] : n \in 0..MaxParams} :
                       DistinctKeys(e)}}

UrlIds == {<<>>, <<"1">>}

InitUrl ==
  /\ InitProgram
  /\ probe \in [fn : {"buildApiUrl"}, endpoint : Endpoints, id : UrlIds,
                params : UrlParamMaps, url : {<<>>}, done : {FALSE}]

CallBuildApiUrl ==
  /\ probe.fn = "buildApiUrl"
  /\ ~probe.done
  /\ probe' = [probe EXCEPT !.url = buildApiUrl(probe.endpoint, probe.id, probe.params),
                            !.done = TRUE]
  /\ UNCHANGED <<now, ticks, calls, cache, currentCacheSize, validationMetrics, task>>

NextUrl == CallBuildApiUrl

SpecUrl == InitUrl /\ [][NextUrl]_vars

-----------------------------------------------------------------------------
(* The cache on its own: setCache and getFromCache applied, as fetchResource *)
(* applies them, to the keys of fetchMonumentById(n) requests               *)

Digit(n) == <<"0", "1", "2", "3", "4", "5", "6", "7", "8", "9">>[n + 1]

\* String(n) for 0 <= n < 100
Digits(n) == IF n < 10 THEN <<Digit(n)>> ELSE <<Digit(n \div 10), Digit(n % 10)>>

\* the cache key of fetchResource(ENDPOINTS.MONUMENTS, MonumentSchema, n)
MonumentKey(n) ==
  getCacheKey(buildApiUrl(MONUMENTS, Digits(n), Undefined), Undefined)

\* the number of largest admissible entries that fill the budget exactly
FullCount == CACHE_SIZE_LIMIT \div ByteLength(BigValue)

\* the cache after the payloads of monuments 1..n, each of the largest
\* admissible size, were stored at clock value 0
RECURSIVE Fill(_)
Fill(n) ==
  IF n = 0 THEN [cache |-> <<>>, currentCacheSize |-> 0, evicted |-> <<>>]
  ELSE LET c == Fill(n - 1)
       IN  setCache(c.cache, c.currentCacheSize, MonumentKey(n), BigValue, 0)

\* the monuments whose entries are stored and read: two of the first stores
\* and one that is not in a filled cache
OpIds == {1, 2, FullCount + 1}
KeyIds == 1..(FullCount + 1)

PutValues == {JsonNull, BigValue, HugeValue}

RECURSIVE SumSizes(_)
SumSizes(c) == IF c = <<>> THEN 0 ELSE Head(c).size + SumSizes(Tail(c))

\* the record of the latest cache operation: its arguments, the clock value,
\* the cache and the counter before it, and what it returned or evicted;
\* putAt is the clock value of the latest store of each key (-1: never)
CacheProbe(n) ==
  [fn |-> "cache", ops |-> 0, op |-> "none", id |-> 0, data |-> JsonNull,
   at |-> 0, before |-> <<>>, sizeBefore |-> 0,
   outcome |-> "none", value |-> JsonNull, evicted |-> <<>>,
   putAt |-> [k \in KeyIds |-> IF k <= n THEN 0 ELSE -1]]

InitCache ==
  /\ now = 0
  /\ ticks = 0
  /\ calls = 0
  /\ validationMetrics = InitMetrics
  /\ task = [t \in Tasks |-> IdleTask]
  /\ \E n \in {0, FullCount} :
       /\ cache = Fill(n).cache
       /\ currentCacheSize = Fill(n).currentCacheSize
       /\ probe = CacheProbe(n)

CachePut(n, data) ==
  /\ probe.fn = "cache"
  /\ probe.ops < MaxOps
  /\ LET put == setCache(cache, currentCacheSize, MonumentKey(n), data, now)
     IN  /\ cache' = put.cache
         /\ currentCacheSize' = put.currentCacheSize
         /\ probe' = [probe EXCEPT
               !.ops = @ + 1, !.op = "put", !.id = n, !.data = data, !.at = now,
               !.before = cache, !.sizeBefore = currentCacheSize,
               !.outcome = "none", !.value = JsonNull,
               !.evicted = put.evicted,
               !.putAt[n] = IF CacheHas(put.cache, MonumentKey(n))
                               /\ put.cache[CacheIndex(put.cache, MonumentKey(n))].data = data
                               /\ ByteLength(data) * 10 <= CACHE_SIZE_LIMIT
                            THEN now ELSE @]
  /\ UNCHANGED <<now, ticks, calls, validationMetrics, task>>

CacheGet(n) ==
  /\ probe.fn = "cache"
  /\ probe.ops < MaxOps
  /\ LET got == getFromCache(cache, currentCacheSize, MonumentKey(n), now)
     IN  /\ cache' = got.cache
         /\ currentCacheSize' = got.currentCacheSize
         /\ probe' = [probe EXCEPT
               !.ops = @ + 1, !.op = "get", !.id = n, !.data = JsonNull, !.at = now,
               !.before = cache, !.sizeBefore = currentCacheSize,
               !.outcome = got.outcome, !.value = got.value,
               !.evicted = <<>>]
  /\ UNCHANGED <<now, ticks, calls, validationMetrics, task>>

NextCache ==
  \/ \E n \in OpIds, data \in PutValues : CachePut(n, data)
  \/ \E n \in OpIds : CacheGet(n)
  \/ Tick

SpecCache == InitCache /\ [][NextCache]_vars

-----------------------------------------------------------------------------
(* fetchAllMonuments on its own.  Each `await fetchMonuments(params)` settles *)
(* with the batch the upstream serves for the offset, or with an error.     *)
(* A monument is [id, off, pos]: its id, and the offset and the position of *)
(* the batch that delivered this copy of it.                                *)

BATCH_SIZE == 100
DELAY_MS == 100
OFFSET_LIMIT == 100000

\* records lo..hi of a data set, served for offset o
Slice(lo, hi, o) ==
  [k \in 1..(IF hi >= lo THEN hi - lo + 1 ELSE 0) |->
     [id |-> lo + k - 1, off |-> o, pos |-> k]]

MinOfTwo(a, b) == IF a <= b THEN a ELSE b

\* The batch an upstream serves for GET /monuments?limit=100&offset=o:
\*   paged    250 monuments: batches of 100, 100, 50
\*   exact    200 monuments: batches of 100, 100, 0
\*   empty    no monument
\*   overlap  the window moves by 50 per request, the third batch is short
\*   twice    each monument listed twice in the first batch, then a short batch
\*   same     never ends: the same full batch for every offset
Upstreams == {"paged", "exact", "empty", "overlap", "twice", "same"}

Page(u, o) ==
  CASE u = "paged" -> Slice(o + 1, MinOfTwo(o + BATCH_SIZE, 250), o)
    [] u = "exact" -> Slice(o + 1, MinOfTwo(o + BATCH_SIZE, 200), o)
    [] u = "empty" -> <<>>
    [] u = "overlap" ->
         IF o < 2 * BATCH_SIZE THEN Slice(o \div 2 + 1, o \div 2 + BATCH_SIZE, o)
         ELSE Slice(o \div 2 + 1, o \div 2 + 30, o)
    [] u = "twice" ->
         IF o = 0
         THEN [k \in 1..BATCH_SIZE |-> [id |-> (k + 1) \div 2, off |-> o, pos |-> k]]
         ELSE Slice(51, 60, o)
    [] u = "same" -> Slice(1, BATCH_SIZE, o)

\* maxResults: undefined (no cap) or a number
NoCap == [defined |-> FALSE, value |-> 0]
Cap(n) == [defined |-> TRUE, value |-> n]
MaxResultsChoices == {NoCap, Cap(150)}

\* the errors a batch request fails with
BatchErrors ==
  {RetriesExhausted(FetchFailed), ApiError(500, "oops"), ZodError}

NoMonuments == [kind |-> "none", monuments |-> <<>>, error |-> NoError]
ResolvedMonuments(ms) == [kind |-> "ok", monuments |-> ms, error |-> NoError]
RejectedAll(error) == [kind |-> "err", monuments |-> <<>>, error |-> error]

AllProbe(u, cap) ==
  [fn |-> "fetchAllMonuments", pc |-> "idle", upstream |-> u, maxResults |-> cap,
   offset |-> 0, allMonuments |-> <<>>, seenIds |-> {},
   result |-> NoMonuments,
   \* history
   requested |-> <<>>,      \* the offsets requested, in order
   lastSize |-> -1,         \* the size of the latest batch received
   failedWith |-> NoError,  \* the error of the batch request that failed
   failedAfter |-> 0]       \* the number of requests made when it failed

InitAll ==
  /\ InitProgram
  /\ probe \in {AllProbe(u, cap) : u \in Upstreams, cap \in MaxResultsChoices}

\* the call returns or throws: its locals are gone
AllDone(p, result) ==
  [p EXCEPT !.pc = "done", !.result = result, !.offset = 0,
            !.allMonuments = <<>>, !.seenIds = {}]

\* for (const m of batch) if (!seenIds.has(m.id)) { push; add }: a record
\* is pushed when its id is neither in seenIds nor earlier in the batch
\* (m.pos is the index of m in its batch)
AddBatch(all, seen, batch) ==
  LET pushed == SelectSeq(batch, LAMBDA m :
                  /\ m.id \notin seen
                  /\ \A j \in 1..(m.pos - 1) : batch[j].id # m.id)
  IN  [allMonuments |-> all \o pushed,
       seenIds |-> seen \cup {batch[k].id : k \in 1..Len(batch)}]

\* the loop body that keeps every record of the batch
BatchReceivedNoDedup(p, batch) ==
  IF Len(batch) = 0 THEN AllDone(p, ResolvedMonuments(p.allMonuments))
  ELSE LET all == p.allMonuments \o batch
           q == [p EXCEPT !.allMonuments = all]
       IN  IF p.maxResults.defined /\ Len(all) >= p.maxResults.value
           THEN AllDone(q, ResolvedMonuments(all))
           ELSE IF Len(batch) < BATCH_SIZE
           THEN AllDone(q, ResolvedMonuments(all))
           ELSE [q EXCEPT !.offset = @ + BATCH_SIZE, !.pc = "delay"]

\* the loop body from the settled `await fetchMonuments(params)` to the next
\* await (the delay) or to the return
BatchReceived(p, batch) ==
  IF Len(batch) = 0 THEN AllDone(p, ResolvedMonuments(p.allMonuments))
  ELSE LET acc == AddBatch(p.allMonuments, p.seenIds, batch)
           q == [p EXCEPT !.allMonuments = acc.allMonuments, !.seenIds = acc.seenIds]
       IN  IF p.maxResults.defined /\ Len(acc.allMonuments) >= p.maxResults.value
           THEN AllDone(q, ResolvedMonuments(acc.allMonuments))
           ELSE IF Len(batch) < BATCH_SIZE
           THEN AllDone(q, ResolvedMonuments(acc.allMonuments))
           ELSE [q EXCEPT !.offset = @ + BATCH_SIZE, !.pc = "delay"]

\* the end of the loop body without the limit on the offset
AfterDelayNoLimit(p) ==
  [p EXCEPT !.pc = "batch", !.requested = Append(@, p.offset)]

\* the end of the loop body after the delay, and the start of the next one
AfterDelay(p) ==
  IF p.offset > OFFSET_LIMIT
  THEN AllDone(p, ResolvedMonuments(p.allMonuments))
  ELSE [p EXCEPT !.pc = "batch", !.requested = Append(@, p.offset)]

\* a failed batch request answered with what was collected so far
BatchFailedKeepsPartial(p, error) ==
  [AllDone(p, ResolvedMonuments(p.allMonuments)) EXCEPT
     !.failedWith = error, !.failedAfter = Len(p.requested)]

\* `await fetchMonuments(params)` rejects: nothing catches it
BatchFailed(p, error) ==
  [AllDone(p, RejectedAll(error)) EXCEPT
     !.failedWith = error, !.failedAfter = Len(p.requested)]

FetchAllStart ==
  /\ probe.fn = "fetchAllMonuments"
  /\ probe.pc = "idle"
  /\ probe' = [probe EXCEPT !.pc = "batch", !.requested = <<0>>]
  /\ UNCHANGED <<now, ticks, calls, cache, currentCacheSize, validationMetrics, task>>

BatchResolves ==
  /\ probe.fn = "fetchAllMonuments"
  /\ probe.pc = "batch"
  /\ LET batch == Page(probe.upstream, probe.offset)
     IN  probe' = BatchReceived([probe EXCEPT !.lastSize = Len(batch)], batch)
  /\ UNCHANGED <<now, ticks, calls, cache, currentCacheSize, validationMetrics, task>>

BatchRejects ==
  /\ probe.fn = "fetchAllMonuments"
  /\ probe.pc = "batch"
  /\ \E error \in BatchErrors : probe' = BatchFailed(probe, error)
  /\ UNCHANGED <<now, ticks, calls, cache, currentCacheSize, validationMetrics, task>>

\* the timer of the delay between two batches fires
DelayElapses ==
  /\ probe.fn = "fetchAllMonuments"
  /\ probe.pc = "delay"
  /\ now' = now + DELAY_MS
  /\ probe' = AfterDelay(probe)
  /\ UNCHANGED <<ticks, calls, cache, currentCacheSize, validationMetrics, task>>

NextAll ==
  \/ FetchAllStart
  \/ BatchResolves
  \/ BatchRejects
  \/ DelayElapses

SpecAll == InitAll /\ [][NextAll]_vars

\* every batch request completes and every timer fires
SpecAllLive == SpecAll /\ WF_vars(NextAll)

-----------------------------------------------------------------------------
(* JavaScript numbers that stand for coordinates and distances: fixed-point *)
(* values, Deg units to the degree, and the values that are not such a      *)
(* number                                                                   *)

Deg == 1000 * 1000

Num(v) == [t |-> "number", v |-> v]
NaN == [t |-> "nan", v |-> 0]
Null == [t |-> "null", v |-> 0]
Missing == [t |-> "undefined", v |-> 0]

\* x >= n and x <= n for a number n; false when x is NaN
NumGeq(x, n) == x.t = "number" /\ x.v >= n
NumLeq(x, n) == x.t = "number" /\ x.v <= n

LAT_MIN == -90 * Deg
LAT_MAX == 90 * Deg
LON_MIN == -180 * Deg
LON_MAX == 180 * Deg

\* variant of validateCoordinates with exclusive bounds
ValidateCoordinatesExclusive(lat, lon) ==
  /\ NumGeq(lat, LAT_MIN + 1)
  /\ NumLeq(lat, LAT_MAX - 1)
  /\ NumGeq(lon, LON_MIN + 1)
  /\ NumLeq(lon, LON_MAX - 1)

validateCoordinates(lat, lon) ==
  /\ NumGeq(lat, LAT_MIN)
  /\ NumLeq(lat, LAT_MAX)
  /\ NumGeq(lon, LON_MIN)
  /\ NumLeq(lon, LON_MAX)

\* the arguments of the unit tests, the values next to the bounds, and NaN
LatValues ==
  {Num(35 * Deg), Num(0), Num(-90 * Deg), Num(90 * Deg), Num(91 * Deg),
   Num(-91 * Deg), Num(100 * Deg), Num(90 * Deg + 100), Num(90 * Deg + 1),
   Num(-90 * Deg - 1), Num(90 * Deg - 1), NaN}
LonValues ==
  {Num(136 * Deg), Num(0), Num(-180 * Deg), Num(180 * Deg), Num(181 * Deg),
   Num(-181 * Deg), Num(200 * Deg), Num(180 * Deg + 100), Num(180 * Deg + 1),
   Num(-180 * Deg - 1), Num(-180 * Deg + 1), NaN}

InitCoord ==
  /\ InitProgram
  /\ probe \in [fn : {"validateCoordinates"}, lat : LatValues, lon : LonValues,
                result : {FALSE}, done : {FALSE}]

CallValidateCoordinates ==
  /\ probe.fn = "validateCoordinates"
  /\ ~probe.done
  /\ probe' = [probe EXCEPT !.result = validateCoordinates(probe.lat, probe.lon),
                            !.done = TRUE]
  /\ UNCHANGED <<now, ticks, calls, cache, currentCacheSize, validationMetrics, task>>

NextCoord == CallValidateCoordinates

SpecCoord == InitCoord /\ [][NextCoord]_vars

-----------------------------------------------------------------------------
(* The discover_nearby_monuments tool: one invocation, from the validation  *)
(* of its arguments to its answer.  Distances are in centimetres.           *)

MaxMonuments == 3

EARTH_RADIUS == 6371000

\* Math.abs
Abs(x) == IF x < 0 THEN -x ELSE x

\* EARTH_RADIUS * toRadians(1), metres to the degree (pi as 355/113)
MetresPerDegree == ((EARTH_RADIUS \div 180) * 355) \div 113

\* calculateDistance for two points on one meridian, where dLon = 0 and the
\* haversine formula gives EARTH_RADIUS * toRadians(|lat2 - lat1|)
calculateDistance(lat1, lon1, lat2, lon2) ==
  CASE lon1 = lon2 -> (Abs(lat2 - lat1) * (MetresPerDegree \div 100)) \div 100

\* safeArrayAccess(array, 0): the first element, or Missing
safeArrayAccess(array) ==
  IF Len(array) > 0 THEN array[1] ELSE [latitude |-> Missing, longitude |-> Missing]

\* !x for a number, null or undefined
Falsy(x) == x.t # "number" \/ x.v = 0

isFiniteNumber(x) == x.t = "number"

Monument(id, locations) == [id |-> id, locations |-> locations]
Location(lat, lon) == [latitude |-> lat, longitude |-> lon]

\* the monuments the upstream knows: north and south of the point
\* (0.001, 135) at about 500 m, 1500 m, 222 m (twice) and 0 m, one on the
\* equator 111 m away, one without location and one whose location has no
\* coordinates
MonumentPool ==
  {Monument(1, <<Location(Num(5496), Num(135 * Deg))>>),
   Monument(2, <<Location(Num(14500), Num(135 * Deg))>>),
   Monument(3, <<Location(Num(0), Num(135 * Deg))>>),
   Monument(4, <<>>),
   Monument(5, <<Location(Null, Null)>>),
   Monument(6, <<Location(Num(-1000), Num(135 * Deg))>>),
   Monument(7, <<Location(Num(1000), Num(135 * Deg))>>),
   Monument(8, <<Location(Num(3000), Num(135 * Deg)), Location(Num(0), Num(0))>>)}

\* what fetchAllMonuments resolves with: monuments with distinct ids
MonumentLists ==
  {ms \in UNION {[1..n -> MonumentPool] : n \in 0..MaxMonuments} :
     \A i, j \in 1..Len(ms) : ms[i].id = ms[j].id => i = j}

\* the arguments a client sends; place_query "undefined" is the absent one
NearbyLatitudes == {Missing, Num(1000), Num(91 * Deg)}
NearbyLongitudes == {Missing, Num(135 * Deg), Num(-181 * Deg)}
NearbyRadii == {1000, 0, -5}
NearbyMaxResults == {5, 1, 0, -1}
PlaceQueries == {"undefined", "", "  ", "kanazawa"}

\* what resolveCoordinatesFromQuery returns for a non-blank query: null, or
\* the coordinates of the best match as the upstream gave them
ResolvedCoordinates ==
  {Location(Null, Null), Location(Num(1000), Num(135 * Deg)),
   Location(Num(91 * Deg), Num(135 * Deg))}

NearbyError(message) == [kind |-> "error", message |-> message, nearby |-> <<>>, limited |-> <<>>]
NearbyList(nearby, limited) ==
  [kind |-> "list", message |-> "", nearby |-> nearby, limited |-> limited]

\* the input schema: latitude and longitude are optional numbers in range
NearbySchemaAccepts(latitude, longitude) ==
  /\ latitude.t = "undefined" \/ (NumGeq(latitude, -90 * Deg) /\ NumLeq(latitude, 90 * Deg))
  /\ longitude.t = "undefined" \/ (NumGeq(longitude, -180 * Deg) /\ NumLeq(longitude, 180 * Deg))

InitNearby ==
  /\ InitProgram
  /\ probe \in [fn : {"discover_nearby_monuments"}, pc : {"idle"},
                latitude : NearbyLatitudes, longitude : NearbyLongitudes,
                radius_meters : NearbyRadii, max_results : NearbyMaxResults,
                place_query : PlaceQueries,
                centerLatitude : {Missing}, centerLongitude : {Missing},
                allMonuments : {<<>>}, requests : {0},
                result : {NearbyError("")}]

\* the handler from the check of the center to the call of fetchAllMonuments
CheckCenter(p, centerLatitude, centerLongitude) ==
  LET q == [p EXCEPT !.centerLatitude = centerLatitude,
                     !.centerLongitude = centerLongitude]
      fail(message) == [q EXCEPT !.pc = "done", !.result = NearbyError(message)]
  IN  IF ~isFiniteNumber(centerLatitude) \/ ~isFiniteNumber(centerLongitude)
      THEN fail("no center")
      ELSE IF centerLatitude.v < -90 * Deg \/ centerLatitude.v > 90 * Deg
      THEN fail("latitude out of range")
      ELSE IF centerLongitude.v < -180 * Deg \/ centerLongitude.v > 180 * Deg
      THEN fail("longitude out of range")
      ELSE IF p.radius_meters <= 0
      THEN fail("radius not positive")
      ELSE [q EXCEPT !.pc = "fetching", !.requests = @ + 1]

\* a client calls the tool: the arguments are validated and the handler runs
\* up to its first await; with an empty cache every fetch is an upstream
\* request
NearbyInvoke ==
  /\ probe.fn = "discover_nearby_monuments"
  /\ probe.pc = "idle"
  /\ probe' =
       IF ~NearbySchemaAccepts(probe.latitude, probe.longitude)
       THEN [probe EXCEPT !.pc = "done", !.result = NearbyError("invalid arguments")]
       ELSE IF /\ ~isFiniteNumber(probe.latitude) \/ ~isFiniteNumber(probe.longitude)
               /\ probe.place_query \notin {"undefined", ""}
       THEN IF Trim(probe.place_query) = ""
            THEN [probe EXCEPT !.pc = "done", !.result = NearbyError("place not found")]
            ELSE [probe EXCEPT !.pc = "resolving", !.requests = @ + 1]
       ELSE CheckCenter(probe, probe.latitude, probe.longitude)
  /\ UNCHANGED <<now, ticks, calls, cache, currentCacheSize, validationMetrics, task>>

\* resolveCoordinatesFromQuery settles
NearbyResolved ==
  /\ probe.fn = "discover_nearby_monuments"
  /\ probe.pc = "resolving"
  /\ \E resolved \in ResolvedCoordinates :
       probe' =
         IF resolved.latitude.t = "null"
         THEN [probe EXCEPT !.pc = "done", !.result = NearbyError("place not found")]
         ELSE CheckCenter(probe, resolved.latitude, resolved.longitude)
  /\ UNCHANGED <<now, ticks, calls, cache, currentCacheSize, validationMetrics, task>>

\* the candidates of the loop over allMonuments, in its order
RECURSIVE NearbyOf(_, _, _, _)
NearbyOf(ms, centerLatitude, centerLongitude, radius_meters) ==
  IF ms = <<>> THEN <<>>
  ELSE LET location == safeArrayAccess(Head(ms).locations)
           rest == NearbyOf(Tail(ms), centerLatitude, centerLongitude, radius_meters)
       IN  IF Falsy(location.latitude) \/ Falsy(location.longitude) THEN rest
           ELSE LET distance == calculateDistance(centerLatitude.v, centerLongitude.v,
                                                  location.latitude.v, location.longitude.v)
                IN  IF distance <= radius_meters * 100
                    THEN <<[monument |-> Head(ms), distance |-> distance]>> \o rest
                    ELSE rest

\* nearby.sort((a, b) => a.distance - b.distance): a stable sort
RECURSIVE InsertByDistance(_, _)
InsertByDistance(item, sorted) ==
  IF sorted = <<>> THEN <<item>>
  ELSE IF item.distance < Head(sorted).distance THEN <<item>> \o sorted
  ELSE <<Head(sorted)>> \o InsertByDistance(item, Tail(sorted))

RECURSIVE SortByDistance(_)
SortByDistance(items) ==
  IF items = <<>> THEN <<>>
  ELSE InsertByDistance(items[Len(items)], SortByDistance(SubSeq(items, 1, Len(items) - 1)))

\* Array.prototype.slice(0, end) for an integer end
SliceTo(items, end) ==
  LET stop == IF end < 0 THEN (IF Len(items) + end < 0 THEN 0 ELSE Len(items) + end)
              ELSE IF end > Len(items) THEN Len(items) ELSE end
  IN  SubSeq(items, 1, stop)

\* fetchAllMonuments resolves: the loop, the sort and the slice
NearbyFetched ==
  /\ probe.fn = "discover_nearby_monuments"
  /\ probe.pc = "fetching"
  /\ \E allMonuments \in MonumentLists :
       LET nearby == NearbyOf(allMonuments, probe.centerLatitude, probe.centerLongitude,
                              probe.radius_meters)
           sorted == SortByDistance(nearby)
           limited == SliceTo(sorted, probe.max_results)
       IN  probe' = [probe EXCEPT !.pc = "done", !.allMonuments = allMonuments,
                                  !.result = NearbyList(nearby, limited)]
  /\ UNCHANGED <<now, ticks, calls, cache, currentCacheSize, validationMetrics, task>>

\* fetchAllMonuments rejects: the catch block answers with the message
NearbyFetchFailed ==
  /\ probe.fn = "discover_nearby_monuments"
  /\ probe.pc = "fetching"
  /\ probe' = [probe EXCEPT !.pc = "done", !.result = NearbyError("fetch failed")]
  /\ UNCHANGED <<now, ticks, calls, cache, currentCacheSize, validationMetrics, task>>

NextNearby == NearbyInvoke \/ NearbyResolved \/ NearbyFetched \/ NearbyFetchFailed

SpecNearby == InitNearby /\ [][NextNearby]_vars

-----------------------------------------------------------------------------
(* resolveCoordinatesFromQuery on its own: one place name, one answer of    *)
(* fetchLocations                                                           *)

MaxCandidates == 3

\* a string field that may be null
Str(s) == [t |-> "string", s |-> s]
NoStr == [t |-> "null", s |-> <<>>]

\* String.prototype.includes
Includes(hay, needle) ==
  \E i \in 0..(Len(hay) - Len(needle)) : SubSeq(hay, i + 1, i + Len(needle)) = needle

\* String.prototype.trim and replace(/\s+/gu, ""), the space being the only
\* white space character of these strings
TrimSpaces(s) ==
  LET solid == {i \in 1..Len(s) : s[i] # " "}
  IN  IF solid = {} THEN <<>>
      ELSE SubSeq(s, CHOOSE i \in solid : \A j \in solid : i <= j,
                     CHOOSE i \in solid : \A j \in solid : i >= j)
StripSpaces(s) == SelectSeq(s, LAMBDA c : c # " ")

Place(id, lat, lon, place_name, address, municipality, prefecture) ==
  [id |-> id, latitude |-> lat, longitude |-> lon, place_name |-> place_name,
   address |-> address, municipality |-> municipality, prefecture |-> prefecture]

scoreLocationMatch(location, query) ==
  LET normalizedQuery == StripSpaces(query)
      place == StripSpaces(location.place_name.s)
  IN  (IF /\ location.place_name.t = "string" /\ location.place_name.s # <<>>
          /\ place # <<>> /\ Includes(normalizedQuery, place)
       THEN 5 ELSE 0)
      + (IF location.address.t = "string" /\ Includes(location.address.s, query)
         THEN 3 ELSE 0)
      + (IF /\ location.municipality.t = "string" /\ location.municipality.s # <<>>
            /\ Includes(query, location.municipality.s)
         THEN 2 ELSE 0)
      + (IF /\ location.prefecture.t = "string" /\ location.prefecture.s # <<>>
            /\ Includes(query, location.prefecture.s)
         THEN 1 ELSE 0)

\* the locations the upstream answers with; latitude id, longitude 135 + id
PlacePool ==
  {Place(1, Num(1 * Deg), Num(136 * Deg), Str(<<"a", "b">>), NoStr, NoStr, NoStr),
   Place(2, Num(2 * Deg), Num(137 * Deg), NoStr, Str(<<"x", "a", "b", " ", "c">>), NoStr, NoStr),
   Place(3, Num(3 * Deg), Num(138 * Deg), NoStr, NoStr, Str(<<"b">>), Str(<<"a">>)),
   Place(4, Null, Null, Str(<<"a", "b">>), NoStr, Str(<<"b">>), NoStr),
   Place(5, Num(5 * Deg), Num(140 * Deg), Str(<<"z">>), Str(<<"z">>), NoStr, NoStr),
   Place(6, Num(6 * Deg), Num(141 * Deg), Str(<<" ", "a", " ", "b">>), NoStr, Str(<<"b">>), NoStr)}

PlaceLists ==
  {ls \in UNION {[1..n -> PlacePool] : n \in 0..MaxCandidates} :
     \A i, j \in 1..Len(ls) : ls[i].id = ls[j].id => i = j}

QueryTexts ==
  {<<>>, <<" ", " ">>, <<"a", "b">>, <<" ", "a", "b", " ">>, <<"a", " ", "b">>, <<"c">>}

\* scored.sort((a, b) => b.score - a.score): a stable sort
RECURSIVE SortByScore(_)
SortByScore(items) ==
  IF items = <<>> THEN <<>>
  ELSE LET last == items[Len(items)]
           sorted == SortByScore(SubSeq(items, 1, Len(items) - 1))
           before == SelectSeq(sorted, LAMBDA e : e.score >= last.score)
           after == SelectSeq(sorted, LAMBDA e : e.score < last.score)
       IN  before \o <<last>> \o after

Unresolved == Location(Null, Null)

\* variant of BestMatch that does not leave out the candidates without
\* finite coordinates
BestMatchUnfiltered(candidates, normalized) ==
  LET scored == SortByScore([i \in 1..Len(candidates) |->
                               [location |-> candidates[i],
                                score |-> scoreLocationMatch(candidates[i], normalized)]])
  IN  IF scored = <<>> \/ scored[1].score <= 0 THEN Unresolved
      ELSE Location(scored[1].location.latitude, scored[1].location.longitude)

\* resolveCoordinatesFromQuery after its await, for the candidates received
BestMatch(candidates, normalized) ==
  LET finite == SelectSeq(candidates, LAMBDA l : isFiniteNumber(l.latitude)
                                                  /\ isFiniteNumber(l.longitude))
      scored == SortByScore([i \in 1..Len(finite) |->
                               [location |-> finite[i],
                                score |-> scoreLocationMatch(finite[i], normalized)]])
  IN  IF scored = <<>> \/ scored[1].score <= 0 THEN Unresolved
      ELSE Location(scored[1].location.latitude, scored[1].location.longitude)

InitResolve ==
  /\ InitProgram
  /\ probe \in [fn : {"resolveCoordinatesFromQuery"}, pc : {"idle"}, query : QueryTexts,
                candidates : {<<>>}, failed : {FALSE}, requests : {0},
                result : {Unresolved}]

\* the call up to its await: a blank query is answered without a request
ResolveStart ==
  /\ probe.fn = "resolveCoordinatesFromQuery"
  /\ probe.pc = "idle"
  /\ probe' = IF TrimSpaces(probe.query) = <<>>
              THEN [probe EXCEPT !.pc = "done", !.result = Unresolved]
              ELSE [probe EXCEPT !.pc = "fetching", !.requests = @ + 1]
  /\ UNCHANGED <<now, ticks, calls, cache, currentCacheSize, validationMetrics, task>>

\* fetchLocations resolves
LocationsResolved ==
  /\ probe.fn = "resolveCoordinatesFromQuery"
  /\ probe.pc = "fetching"
  /\ \E candidates \in PlaceLists :
       probe' = [probe EXCEPT !.pc = "done", !.candidates = candidates,
                              !.result = BestMatch(candidates, TrimSpaces(probe.query))]
  /\ UNCHANGED <<now, ticks, calls, cache, currentCacheSize, validationMetrics, task>>

\* fetchLocations rejects: .catch(() => []) turns it into no candidate
LocationsRejected ==
  /\ probe.fn = "resolveCoordinatesFromQuery"
  /\ probe.pc = "fetching"
  /\ probe' = [probe EXCEPT !.pc = "done", !.failed = TRUE,
                            !.result = BestMatch(<<>>, TrimSpaces(probe.query))]
  /\ UNCHANGED <<now, ticks, calls, cache, currentCacheSize, validationMetrics, task>>

NextResolve == ResolveStart \/ LocationsResolved \/ LocationsRejected

SpecResolve == InitResolve /\ [][NextResolve]_vars

-----------------------------------------------------------------------------
(* convertToGeoJSON on its own: one array of monuments                      *)

Feature(id, coordinates) == [id |-> id, coordinates |-> coordinates]

FeatureCollection(features) == [kind |-> "FeatureCollection", features |-> features, id |-> 0]
\* Error(`Monument ${id} has invalid location data`)
InvalidLocationData(id) == [kind |-> "Error", features |-> <<>>, id |-> id]

\* x == null
IsNullish(x) == x.t \in {"null", "undefined"}

convertToGeoJSON(monuments) ==
  LET located == SelectSeq(monuments, LAMBDA m : Len(m.locations) > 0)
      invalid == {i \in 1..Len(located) :
                    \/ IsNullish(safeArrayAccess(located[i].locations).longitude)
                    \/ IsNullish(safeArrayAccess(located[i].locations).latitude)}
  IN  IF invalid # {}
      THEN InvalidLocationData(located[CHOOSE i \in invalid : \A j \in invalid : i <= j].id)
      ELSE FeatureCollection(
             [i \in 1..Len(located) |->
                LET location == safeArrayAccess(located[i].locations)
                IN  Feature(located[i].id, <<location.longitude, location.latitude>>)])

InitGeo ==
  /\ InitProgram
  /\ probe \in [fn : {"convertToGeoJSON"}, monuments : MonumentLists,
                result : {FeatureCollection(<<>>)}, done : {FALSE}]

CallConvertToGeoJSON ==
  /\ probe.fn = "convertToGeoJSON"
  /\ ~probe.done
  /\ probe' = [probe EXCEPT !.result = convertToGeoJSON(probe.monuments), !.done = TRUE]
  /\ UNCHANGED <<now, ticks, calls, cache, currentCacheSize, validationMetrics, task>>

NextGeo == CallConvertToGeoJSON

SpecGeo == InitGeo /\ [][NextGeo]_vars

-----------------------------------------------------------------------------
(* The find_similar_monuments tool: one invocation.  A monument is          *)
(* represented by its id.                                                   *)

MaxTerms == 2

SimilarIds == 1..3
SimilarLimits == {50, 2, 1, 0, -1}

\* arrays of monuments with distinct ids, as one upstream response holds them
DistinctIdLists ==
  {ms \in UNION {[1..n -> SimilarIds] : n \in 0..Cardinality(SimilarIds)} :
     \A i, j \in 1..Len(ms) : ms[i] = ms[j] => i = j}

\* the monument ids of the inscriptions of the poems found, in the order of
\* the loops over the fulfilled poem searches; an id may occur again
PoemMonumentIds == UNION {[1..n -> SimilarIds] : n \in 0..Cardinality(SimilarIds)}

\* the fulfilled results of the inscription searches, one for each term
TermResults == UNION {[1..n -> DistinctIdLists] : n \in 0..MaxTerms}

\* mergeMonuments on a Map in insertion order
RECURSIVE mergeMonuments(_, _)
mergeMonuments(target, entries) ==
  IF entries = <<>> THEN target
  ELSE mergeMonuments(IF \E i \in 1..Len(target) : target[i] = Head(entries)
                      THEN target ELSE Append(target, Head(entries)),
                      Tail(entries))

\* the loops that fill uniqueIds, left as soon as its size reaches limit
RECURSIVE CollectIds(_, _, _)
CollectIds(ids, uniqueIds, limit) ==
  IF ids = <<>> THEN uniqueIds
  ELSE LET next == mergeMonuments(uniqueIds, <<Head(ids)>>)
       IN  IF Len(next) >= limit THEN next ELSE CollectIds(Tail(ids), next, limit)

\* fetchMonumentsFromPoems: fetched holds the ids whose fetchMonumentById is
\* fulfilled (fetchMonumentsSafely keeps those, in the order of the ids)
fetchMonumentsFromPoems(ids, fetched, limit) ==
  LET uniqueIds == CollectIds(ids, <<>>, limit)
  IN  IF uniqueIds = <<>> THEN <<>>
      ELSE SelectSeq(SliceTo(uniqueIds, limit), LAMBDA id : id \in fetched)

RECURSIVE AggregateTerms(_, _, _)
AggregateTerms(results, aggregated, limit) ==
  IF results = <<>> THEN aggregated
  ELSE LET next == mergeMonuments(aggregated, Head(results))
       IN  IF Len(next) >= limit THEN next ELSE AggregateTerms(Tail(results), next, limit)

fetchMonumentsByInscriptionTerms(results, limit) ==
  SliceTo(AggregateTerms(results, <<>>, limit), limit)

SimilarList(monuments) == [kind |-> "list", monuments |-> monuments]
SimilarNotFound == [kind |-> "notFound", monuments |-> <<>>]
SimilarFetchFailed == [kind |-> "fetchFailed", monuments |-> <<>>]

InitSimilar ==
  /\ InitProgram
  /\ probe \in [fn : {"find_similar_monuments"}, pc : {"idle"}, limit : SimilarLimits,
                aggregatedMonuments : {<<>>}, monumentsFromPoems : {<<>>},
                inscriptionMatches : {<<>>}, fallbackMonuments : {<<>>},
                fallback : {FALSE}, result : {SimilarNotFound}]

\* the end of the handler: the slice and the answer
SimilarAnswer(p) ==
  LET monuments == SliceTo(p.aggregatedMonuments, p.limit)
  IN  [p EXCEPT !.pc = "done",
                !.result = IF monuments = <<>> THEN SimilarNotFound
                           ELSE SimilarList(monuments)]

\* the handler after the inscription stage, up to its next await or its end
AfterStages(p) ==
  IF p.aggregatedMonuments = <<>>
  THEN [p EXCEPT !.pc = "fallback", !.fallback = TRUE]
  ELSE SimilarAnswer(p)

\* a client calls the tool: the handler awaits fetchMonumentsFromPoems
SimilarInvoke ==
  /\ probe.fn = "find_similar_monuments"
  /\ probe.pc = "idle"
  /\ probe' = [probe EXCEPT !.pc = "poems"]
  /\ UNCHANGED <<now, ticks, calls, cache, currentCacheSize, validationMetrics, task>>

\* fetchMonumentsFromPoems settles (it never rejects)
PoemsSettled ==
  /\ probe.fn = "find_similar_monuments"
  /\ probe.pc = "poems"
  /\ \E ids \in PoemMonumentIds, fetched \in SUBSET SimilarIds :
       LET monumentsFromPoems == fetchMonumentsFromPoems(ids, fetched, probe.limit)
           p == [probe EXCEPT !.monumentsFromPoems = monumentsFromPoems,
                              !.aggregatedMonuments = mergeMonuments(<<>>, monumentsFromPoems)]
       IN  probe' = IF Len(p.aggregatedMonuments) < p.limit
                    THEN [p EXCEPT !.pc = "inscriptions"]
                    ELSE AfterStages(p)
  /\ UNCHANGED <<now, ticks, calls, cache, currentCacheSize, validationMetrics, task>>

\* fetchMonumentsByInscriptionTerms settles (it never rejects)
InscriptionsSettled ==
  /\ probe.fn = "find_similar_monuments"
  /\ probe.pc = "inscriptions"
  /\ \E results \in TermResults :
       LET inscriptionMatches == fetchMonumentsByInscriptionTerms(results, probe.limit)
       IN  probe' = AfterStages(
                      [probe EXCEPT !.inscriptionMatches = inscriptionMatches,
                                    !.aggregatedMonuments =
                                       mergeMonuments(@, inscriptionMatches)])
  /\ UNCHANGED <<now, ticks, calls, cache, currentCacheSize, validationMetrics, task>>

\* the fallback fetchMonuments({limit: max}) resolves
FallbackResolved ==
  /\ probe.fn = "find_similar_monuments"
  /\ probe.pc = "fallback"
  /\ \E fallbackMonuments \in DistinctIdLists :
       probe' = SimilarAnswer(
                  [probe EXCEPT !.fallbackMonuments = fallbackMonuments,
                                !.aggregatedMonuments = mergeMonuments(@, fallbackMonuments)])
  /\ UNCHANGED <<now, ticks, calls, cache, currentCacheSize, validationMetrics, task>>

\* the fallback fetchMonuments rejects: the catch block answers
FallbackRejected ==
  /\ probe.fn = "find_similar_monuments"
  /\ probe.pc = "fallback"
  /\ probe' = [probe EXCEPT !.pc = "done", !.result = SimilarFetchFailed]
  /\ UNCHANGED <<now, ticks, calls, cache, currentCacheSize, validationMetrics, task>>

NextSimilar ==
  \/ SimilarInvoke
  \/ PoemsSettled
  \/ InscriptionsSettled
  \/ FallbackResolved
  \/ FallbackRejected

SpecSimilar == InitSimilar /\ [][NextSimilar]_vars

-----------------------------------------------------------------------------
(* Properties                                                              *)

call == task[Caller]

\* the call was given a cancellation signal and that signal is aborted
Cancelled(c) == c.signal = "ext" /\ c.aborted

\* C1 (SpecRetry): fetchWithRetry never issues more than RETRY_ATTEMPTS
\* requests; when it fails without cancellation, every attempt having failed
\* with a timeout or a network error, it has issued exactly RETRY_ATTEMPTS
\* requests and its error message is "Failed after 3 attempts: " followed by
\* the message of the last underlying failure.
C1_ExhaustsAfterThreeAttempts ==
  /\ call.requests <= RETRY_ATTEMPTS
  /\ (call.pc = "done" /\ call.result.kind = "err" /\ ~Cancelled(call)) =>
       /\ call.requests = RETRY_ATTEMPTS
       /\ call.cause \in {"timer", "network"}
       /\ call.result.error.message =
            <<"Failed after ", "3", " attempts: ">> \o call.lastError.message
       /\ call.lastError.message # <<>>

C1_Witness ==
  /\ call.entry = "fetchWithRetry"
  /\ call.pc = "done" /\ call.result.kind = "err" /\ ~Cancelled(call)
  /\ call.requests = RETRY_ATTEMPTS
  /\ call.cause = "timer"

\* C2 (SpecRetry): when the third attempt is the one the upstream answers
\* (the first two failed at transport level), fetchWithRetry returns that
\* response as a success and exactly three requests have been made.
C2_SuccessOnThirdAttempt ==
  call.answeredAt > 0 =>
    /\ call.pc = "done"
    /\ call.result = ResolvedResponse(call.answer)
    /\ call.requests = call.answeredAt
    /\ (call.answeredAt = 3 => call.requests = 3 /\ Len(call.waits) = 2)

C2_Witness ==
  /\ call.entry = "fetchWithRetry"
  /\ call.answeredAt = 3 /\ call.pc = "done" /\ call.result.kind = "ok"
  /\ call.requests = 3

MinOf(a, b) == IF a <= b THEN a ELSE b

\* C3 (SpecRetry): the k-th wait of fetchWithRetry is min(1000 * 2^(k-1),
\* 5000) ms, there is one wait after each failed attempt but the last, none
\* after the final failed attempt or after a success, and attempt k+1 is
\* issued no earlier than that delay after the failure of attempt k.
C3_BackoffDelays ==
  /\ \A k \in 1..Len(call.waits) : call.waits[k] = MinOf(1000 * 2 ^ (k - 1), 5000)
  /\ Len(call.waits) <= RETRY_ATTEMPTS - 1
  /\ call.pc = "waiting" =>
       /\ Len(call.waits) = call.requests
       /\ call.wakeAt = call.failedAt + call.waits[call.requests]
  /\ call.pc \in {"inflight", "done"} => Len(call.waits) = call.requests - 1
  /\ (call.pc = "inflight" /\ call.requests > 1) =>
       call.startedAt >= call.failedAt + call.waits[call.requests - 1]

C3_Witness ==
  /\ call.entry = "fetchWithRetry"
  /\ call.pc = "done" /\ call.result.kind = "err"
  /\ call.waits = <<1000, 2000>>

\* C5 (SpecRetry): once the cancellation signal given to fetchWithRetry is
\* aborted, the attempt in flight (or the next one, when the signal is aborted
\* between attempts or before the call) is the last one: it is rejected, no
\* backoff wait is added, no further attempt is issued, and the call fails.
C5_CancelStopsRetry ==
  Cancelled(call) =>
    /\ call.requests <= call.requestsAtAbort + (IF call.abortedInFlight THEN 0 ELSE 1)
    /\ Len(call.waits) =
         (IF call.abortedInFlight THEN call.requestsAtAbort - 1 ELSE call.requestsAtAbort)
    /\ call.pc = "inflight" => call.ctrlAborted
    /\ call.pc = "waiting" => ~call.abortedInFlight /\ call.requests = call.requestsAtAbort
    /\ call.pc = "done" => call.result.kind = "err"

C5_Witness ==
  /\ Cancelled(call) /\ call.abortedInFlight
  /\ call.requestsAtAbort = 2
  /\ call.pc = "done" /\ call.result.kind = "err" /\ call.requests = 2

\* what fetchWithTimeout reports when its timer expires
TimeoutOutcome == Err("Error", <<"Request timeout after ", "30000", "ms">>)

\* C6 (SpecRetry): an attempt aborted by the caller's cancellation signal is
\* reported by fetchWithTimeout with an outcome that differs from the one
\* reported for an expired timer and from the one reported for a transport
\* failure.
C6_CancelledIsDistinct ==
  (call.cause = "signal" /\ call.pc = "done") =>
    /\ call.lastError # TimeoutOutcome
    /\ call.lastError # FetchFailed

\* C7 (SpecInvocation): when the invocation is cancelled while a request is
\* in flight, that request is aborted and the invocation fails without any
\* further attempt.
C7_CancelReachesFetch ==
  (call.aborted /\ call.abortedInFlight) =>
    /\ call.requests = call.requestsAtAbort
    /\ call.pc \notin {"waiting", "body"}
    /\ call.pc = "inflight" => call.ctrlAborted
    /\ call.pc = "done" => call.result.kind = "err"

C8_KeyIgnoresOrder ==
  (probe.fn = "getCacheKey" /\ probe.done) =>
    (SamePairs(probe.p1, probe.p2) <=> probe.key1 = probe.key2)

C8_Witness ==
  /\ probe.fn = "getCacheKey" /\ probe.done
  /\ probe.p1 # probe.p2
  /\ SamePairs(probe.p1, probe.p2)
  /\ Len(probe.p1.entries) = 2
  /\ probe.key1 = probe.key2

\* C9 (Spec): a request made while the cache holds a fresh entry, with a
\* truthy payload, stored for a request with the same endpoint, id and
\* key-value pairs (in any order) is a cache hit and issues no upstream
\* request.
C9_ReorderedRequestHits ==
  call.sawFreshEquivalent => (call.get = "hit" /\ call.requests = 0)

\* C10 (Spec): a get that finds an entry of age at most CACHE_DURATION - 1
\* returns its data and keeps it; a get that finds an entry of age at least
\* CACHE_DURATION + 1 returns null, removes the entry and subtracts its size
\* from currentCacheSize; a key absent from the cache becomes present again
\* only by the setCache of a fetch for that key.
C10_GetStep ==
  calls' = calls + 1 =>
    LET c == task'[Caller]
        key == CacheKeyOf(c.req)
        i == CacheIndex(cache, key)
    IN  i # 0 =>
          /\ now <= cache[i].timestamp + CACHE_DURATION - 1 =>
               /\ c.get = "hit"
               /\ c.got = cache[i].data
               /\ CacheHas(cache', key)
               /\ cache'[CacheIndex(cache', key)].timestamp = cache[i].timestamp
               /\ currentCacheSize' = currentCacheSize
          /\ now >= cache[i].timestamp + CACHE_DURATION + 1 =>
               /\ c.get = "expired"
               /\ c.got = JsonNull
               /\ ~CacheHas(cache', key)
               /\ Len(cache') = Len(cache) - 1
               /\ currentCacheSize' = currentCacheSize - cache[i].size

C10_AbsentUntilPut ==
  \A r \in 1..Len(Requests) :
    (~CacheHas(cache, CacheKeyOf(r)) /\ CacheHas(cache', CacheKeyOf(r))) =>
      /\ task[Caller].pc = "body"
      /\ CacheKeyOf(task[Caller].req) = CacheKeyOf(r)
      /\ cache'[CacheIndex(cache', CacheKeyOf(r))].timestamp = now

C10_ExpiryByAge == [][C10_GetStep /\ C10_AbsentUntilPut]_vars

C10_Witness ==
  /\ call.pc = "inflight" /\ call.requests = 1
  /\ call.get = "expired"
  /\ ~CacheHas(cache, CacheKeyOf(call.req))
  /\ currentCacheSize = 0
  /\ now = CACHE_DURATION + 1

\* the entry of monument n in a cache
EntryOf(c, n) == c[CacheIndex(c, MonumentKey(n))]

\* C11 (SpecCache): every entry keeps the clock value of the store that
\* created it.  A get that finds an entry of age at most CACHE_DURATION is a
\* hit that changes nothing of the entry but lastAccessed; a get that finds an
\* older entry is a miss that removes it, whatever hits came before; only a
\* store sets timestamp, to the clock value of the store.
C11_AbsoluteAge ==
  probe.fn = "cache" =>
    /\ \A n \in KeyIds :
         CacheHas(cache, MonumentKey(n)) => EntryOf(cache, n).timestamp = probe.putAt[n]
    /\ (probe.op = "get" /\ CacheHas(probe.before, MonumentKey(probe.id))) =>
         LET e == EntryOf(probe.before, probe.id)
         IN  IF probe.at - e.timestamp > CACHE_DURATION
             THEN probe.outcome = "expired" /\ ~CacheHas(cache, MonumentKey(probe.id))
             ELSE /\ probe.outcome = "hit"
                  /\ EntryOf(cache, probe.id) = [e EXCEPT !.lastAccessed = probe.at]
    /\ probe.outcome = "hit" => probe.at - probe.putAt[probe.id] <= CACHE_DURATION
    /\ (probe.op = "put" /\ probe.data # HugeValue) =>
         /\ EntryOf(cache, probe.id).timestamp = probe.at
         /\ EntryOf(cache, probe.id).lastAccessed = probe.at

\* an entry stored at 0 and read at CACHE_DURATION - 1 is gone at
\* CACHE_DURATION + 1
C11_Witness ==
  /\ probe.fn = "cache" /\ probe.op = "get" /\ probe.outcome = "expired"
  /\ probe.at = CACHE_DURATION + 1
  /\ EntryOf(probe.before, probe.id).timestamp = 0
  /\ EntryOf(probe.before, probe.id).lastAccessed = CACHE_DURATION - 1

\* C12 (SpecCache): the sizes of the entries held in the cache sum to at most
\* CACHE_SIZE_LIMIT.
C12_WithinBudget == SumSizes(cache) <= CACHE_SIZE_LIMIT

\* C13 (SpecCache): a store of a payload larger than CACHE_SIZE_LIMIT / 10
\* changes neither the cache (no entry added, removed or touched) nor
\* currentCacheSize.
C13_OversizePutIsNoOp ==
  (probe.fn = "cache" /\ probe.op = "put"
   /\ ByteLength(probe.data) * 10 > CACHE_SIZE_LIMIT) =>
    /\ cache = probe.before
    /\ currentCacheSize = probe.sizeBefore
    /\ probe.evicted = <<>>

\* an oversize store into a full cache whose entries are all older than the
\* clock value
C13_Witness ==
  /\ probe.fn = "cache" /\ probe.op = "put" /\ probe.data = HugeValue
  /\ Len(probe.before) = FullCount
  /\ probe.sizeBefore = CACHE_SIZE_LIMIT
  /\ probe.at > 0
  /\ cache = probe.before

\* C14 (SpecCache): each entry a store evicts was, when evicted, accessed no
\* later than any entry then left in the cache.
C14_EvictsLeastRecentlyUsed ==
  (probe.fn = "cache" /\ probe.op = "put") =>
    \A k \in 1..Len(probe.evicted) :
      \A i \in 1..Len(probe.before) :
        (\A j \in 1..(k - 1) : probe.evicted[j].key # probe.before[i].key) =>
          probe.evicted[k].lastAccessed <= probe.before[i].lastAccessed

\* the first stored entry was read again, so the second one is evicted
C14_Witness ==
  /\ probe.fn = "cache" /\ probe.op = "put"
  /\ Len(probe.evicted) = 1
  /\ probe.evicted[1].key = MonumentKey(2)
  /\ EntryOf(probe.before, 1).lastAccessed > probe.evicted[1].lastAccessed
  /\ CacheHas(cache, MonumentKey(1))

\* C15 (Spec): a request that finds in the cache an entry stored for it no
\* longer than CACHE_DURATION ago issues no upstream request and returns the
\* stored payload.
C15_StoredPayloadServed ==
  (call.entry = "fetchResource" /\ call.get = "hit") =>
    /\ call.requests = 0
    /\ call.pc = "done"
    /\ call.result = Resolved(call.got)

\* the call received a 2xx response whose body is JSON that its schema rejects
SchemaRejected(c) ==
  /\ c.entry = "fetchResource" /\ c.pc = "done"
  /\ c.answeredAt > 0 /\ ResponseOk(c.answer)
  /\ c.body.ok /\ Trim(c.body.text) # "" /\ JSONParse(c.body.text).ok
  /\ Requests[c.req].schema # "none" /\ ~Requests[c.req].skipValidation
  /\ ~SchemaParse(Requests[c.req].schema, JSONParse(c.body.text).value).ok

\* C16 (Spec): when the body of the response is valid JSON that the schema of
\* the endpoint rejects, the entity fetch resolves and the failure counter of
\* the endpoint grows by exactly 1.
C16_SchemaFailureStep ==
  (task[Caller].pc = "body" /\ SchemaRejected(task'[Caller])) =>
    /\ task'[Caller].outer.kind = "ok"
    /\ validationMetrics'.failuresByEndpoint[Requests[task[Caller].req].endpoint] =
         validationMetrics.failuresByEndpoint[Requests[task[Caller].req].endpoint] + 1

C16_SchemaFailureResolves == [][C16_SchemaFailureStep]_vars

\* C17 (SpecInvocation): whatever happens to the fetch its handler awaits,
\* the handler of a tool gives text content and its promise never rejects.
C17_HandlerNeverRejects ==
  call.tool # "none" => call.handler.kind # "rejected"

\* the ids of the monuments of a list
IdsOf(ms) == {ms[i].id : i \in 1..Len(ms)}

\* copy a was delivered before copy b
DeliveredBefore(a, b) == a.off < b.off \/ (a.off = b.off /\ a.pos < b.pos)

\* C18 (SpecAll): the k-th batch request asks for offset 100 * (k - 1); a
\* batch is requested only after a full batch; and without maxResults the
\* list returned holds, for each id of a fetched batch, exactly one monument,
\* the first copy delivered, in the order of delivery.
C18_UnionOfBatches ==
  probe.fn = "fetchAllMonuments" =>
    /\ \A k \in 1..Len(probe.requested) : probe.requested[k] = BATCH_SIZE * (k - 1)
    /\ (probe.pc = "delay" \/ (probe.pc = "batch" /\ Len(probe.requested) > 1)) =>
         probe.lastSize = BATCH_SIZE
    /\ (probe.lastSize >= 0 /\ probe.lastSize < BATCH_SIZE) => probe.pc = "done"
    /\ (probe.pc = "done" /\ probe.result.kind = "ok" /\ ~probe.maxResults.defined) =>
         LET ms == probe.result.monuments
             u == probe.upstream
         IN  /\ Cardinality(IdsOf(ms)) = Len(ms)
             /\ IdsOf(ms) = UNION {IdsOf(Page(u, probe.requested[k])) :
                                    k \in 1..Len(probe.requested)}
             /\ \A i \in 1..Len(ms) :
                  /\ \E k \in 1..Len(probe.requested) : probe.requested[k] = ms[i].off
                  /\ Page(u, ms[i].off)[ms[i].pos] = ms[i]
                  /\ i < Len(ms) => DeliveredBefore(ms[i], ms[i + 1])
                  /\ \A k \in 1..Len(probe.requested) :
                       LET page == Page(u, probe.requested[k])
                       IN  \A j \in 1..Len(page) :
                             page[j].id = ms[i].id =>
                               (page[j] = ms[i] \/ DeliveredBefore(ms[i], page[j]))

\* three batches that overlap: 150 distinct monuments out of 230 delivered
C18_Witness ==
  /\ probe.fn = "fetchAllMonuments" /\ probe.pc = "done"
  /\ probe.upstream = "overlap" /\ ~probe.maxResults.defined
  /\ probe.requested = <<0, 100, 200>>
  /\ probe.lastSize = 30
  /\ probe.result.kind = "ok" /\ Len(probe.result.monuments) = 150

\* C19 (SpecAllLive): no batch is requested for an offset above 100,000, at
\* most 1,001 batches are requested, and when every batch request completes
\* the call ends.
C19_Terminates ==
  /\ [](probe.fn = "fetchAllMonuments" =>
         /\ Len(probe.requested) <= OFFSET_LIMIT \div BATCH_SIZE + 1
         /\ \A k \in 1..Len(probe.requested) : probe.requested[k] <= OFFSET_LIMIT)
  /\ <>(probe.fn = "fetchAllMonuments" /\ probe.pc = "done")

\* the upstream that never serves a short batch was asked 1,001 times
C19_Witness ==
  /\ probe.fn = "fetchAllMonuments" /\ probe.pc = "done"
  /\ probe.upstream = "same" /\ ~probe.maxResults.defined
  /\ Len(probe.requested) = 1001
  /\ probe.requested[1001] = 100000
  /\ probe.result.kind = "ok" /\ Len(probe.result.monuments) = 100

\* C20 (SpecAll): when a batch request fails, fetchAllMonuments fails with
\* the error of that request, gives no monument, and has requested no batch
\* since.
C20_BatchFailurePropagates ==
  (probe.fn = "fetchAllMonuments" /\ probe.failedWith # NoError) =>
    /\ probe.pc = "done"
    /\ probe.result = RejectedAll(probe.failedWith)
    /\ Len(probe.requested) = probe.failedAfter

\* the third batch request fails after 200 monuments were collected
C20_Witness ==
  /\ probe.fn = "fetchAllMonuments" /\ probe.pc = "done"
  /\ probe.upstream = "paged"
  /\ probe.failedWith = RetriesExhausted(FetchFailed)
  /\ probe.failedAfter = 3
  /\ probe.result.kind = "err" /\ probe.result.monuments = <<>>

\* C29: in every reachable state of the fetchResource calls, currentCacheSize
\* equals the sum of the sizes of the entries the cache holds
C29_CounterMatchesEntries == currentCacheSize = SumSizes(cache)

\* the step completes a fetchResource call with a stored payload
StoresPayload ==
  /\ call.pc = "body"
  /\ call'.pc = "done"
  /\ call'.result.kind = "ok"

\* the cache entries kept under a key other than the given one
OtherEntries(c, key) == SelectSeq(c, LAMBDA e : e.key # key)

KeyInUse == IF call'.req = 0 THEN <<>> ELSE CacheKeyOf(call'.req)

C30_FailureStep ==
  \/ StoresPayload
  \/ /\ validationMetrics' = validationMetrics
     /\ OtherEntries(cache', KeyInUse) = OtherEntries(cache, KeyInUse)
     /\ \A i \in 1..Len(cache') :
          cache'[i].key = KeyInUse =>
            \E j \in 1..Len(cache) :
              /\ cache[j].key = KeyInUse
              /\ cache'[i].data = cache[j].data
              /\ cache'[i].timestamp = cache[j].timestamp
              /\ cache'[i].size = cache[j].size

\* C30: every step of a fetchResource call other than the one that stores its
\* payload (so every step of a call that fails) leaves the validation metrics
\* unchanged, stores no entry for the call's request and does not modify the
\* entries of other requests
C30_FailureLeavesNoTrace == [][C30_FailureStep]_vars

\* a call whose body could not be parsed has ended with an error next to the
\* untouched entry and count of an earlier successful call
C30_Witness ==
  /\ call.pc = "done"
  /\ call.result.kind = "err"
  /\ call.body = TextOk("oops")
  /\ Len(cache) = 1
  /\ ~CacheHas(cache, CacheKeyOf(call.req))
  /\ validationMetrics.totalRequests = 1

\* the pieces of s between the occurrences of the character sep
Split(s, sep) ==
  LET at == {i \in 1..Len(s) : s[i] = sep}
      cut(k) == IF k = 0 THEN 0
                ELSE IF k > Cardinality(at) THEN Len(s) + 1
                ELSE CHOOSE i \in at : Cardinality({j \in at : j < i}) = k - 1
  IN  [k \in 1..(Cardinality(at) + 1) |-> SubSeq(s, cut(k - 1) + 1, cut(k) - 1)]

\* what a server reads back from a form-urlencoded name or value
RECURSIVE UrlDecode(_)
UrlDecode(s) ==
  IF s = <<>> THEN <<>>
  ELSE IF Head(s) = "+" THEN <<" ">> \o UrlDecode(Tail(s))
  ELSE IF Head(s) = "%" /\ Len(s) >= 3
       THEN (CASE SubSeq(s, 2, 3) = <<"2", "2">> -> <<"\"">>
               [] SubSeq(s, 2, 3) = <<"2", "6">> -> <<"&">>
               [] SubSeq(s, 2, 3) = <<"5", "C">> -> <<"\\">>
               [] OTHER -> <<"%">>)
            \o UrlDecode(SubSeq(s, 4, Len(s)))
  ELSE <<Head(s)>> \o UrlDecode(Tail(s))

\* the name=value pairs a server reads from a query string
QueryPairs(q) ==
  LET pairs == Split(q, "&")
  IN  [i \in 1..Len(pairs) |->
         LET nv == Split(pairs[i], "=")
         IN  IF Len(nv) = 2 THEN [k |-> UrlDecode(nv[1]), v |-> UrlDecode(nv[2])]
             ELSE [k |-> <<"?">>, v |-> pairs[i]]]

\* C25: the URL is the base URL, the endpoint, "/" and the id when an id is
\* given, and, when a parameter with a non-empty value remains, "?" and the
\* url-encoded name=value pairs of exactly those parameters in the given
\* order; there is no "?" when none remains
C25_UrlIsPathAndNonEmptyPairs ==
  (probe.fn = "buildApiUrl" /\ probe.done) =>
    LET parts == Split(probe.url, "?")
        given == probe.params.entries
        remaining == SelectSeq(given, LAMBDA e : Len(e.v) > 0)
        path == API_BASE_URL \o probe.endpoint
                \o (IF probe.id = <<>> THEN <<>> ELSE <<"/">> \o probe.id)
    IN  /\ parts[1] = path
        /\ remaining = <<>> => Len(parts) = 1
        /\ remaining # <<>> => /\ Len(parts) = 2
                               /\ QueryPairs(parts[2]) = remaining

\* an empty limit is dropped and a search text with a space and an ampersand
\* arrives encoded after the id
C25_Witness ==
  /\ probe.fn = "buildApiUrl" /\ probe.done
  /\ probe.id = <<"1">>
  /\ probe.params = Obj(<<[k |-> Limit, v |-> <<>>], [k |-> Search, v |-> <<"a", " ", "&">>]>>)
  /\ probe.url = API_BASE_URL \o probe.endpoint
                 \o <<"/", "1", "?", "s", "e", "a", "r", "c", "h", "=", "a", "+", "%", "2", "6">>

\* C28: validateCoordinates(lat, lon) is true exactly when lat is a number
\* from -90 to 90 and lon a number from -180 to 180, the four bounds included
C28_InclusiveBounds ==
  (probe.fn = "validateCoordinates" /\ probe.done) =>
    (probe.result <=>
       /\ probe.lat.t = "number" /\ probe.lon.t = "number"
       /\ probe.lat.v \in (-90 * Deg)..(90 * Deg)
       /\ probe.lon.v \in (-180 * Deg)..(180 * Deg))

\* the corner (90, -180) was accepted
C28_Witness ==
  /\ probe.fn = "validateCoordinates" /\ probe.done
  /\ probe.lat = Num(90 * Deg) /\ probe.lon = Num(-180 * Deg)
  /\ probe.result

nearbyDone == probe.fn = "discover_nearby_monuments" /\ probe.pc = "done"

\* C21: the monuments the tool lists are in non-decreasing order of distance,
\* are at most max_results, and no candidate left out is nearer than a listed
\* one
C21_NearestFirstAtMostMax ==
  (nearbyDone /\ probe.result.kind = "list") =>
    LET limited == probe.result.limited
        nearby == probe.result.nearby
    IN  /\ \A i, j \in 1..Len(limited) : i < j => limited[i].distance <= limited[j].distance
        /\ Len(limited) <= probe.max_results
        /\ \A i \in 1..Len(limited) : \E j \in 1..Len(nearby) : nearby[j] = limited[i]
        /\ \A j \in 1..Len(nearby) :
             (\A i \in 1..Len(limited) : limited[i] # nearby[j]) =>
               \A i \in 1..Len(limited) : limited[i].distance <= nearby[j].distance

\* the monuments whose first location has both coordinates and lies within
\* the radius of the center
WithinRadius ==
  {m \in {probe.allMonuments[i] : i \in 1..Len(probe.allMonuments)} :
     /\ Len(m.locations) > 0
     /\ m.locations[1].latitude.t = "number"
     /\ m.locations[1].longitude.t = "number"
     /\ calculateDistance(probe.centerLatitude.v, probe.centerLongitude.v,
                          m.locations[1].latitude.v, m.locations[1].longitude.v)
          <= probe.radius_meters * 100}

\* C22: before truncation the tool selects exactly the monuments whose first
\* location has a latitude and a longitude and whose distance from the center
\* is at most the radius
C22_SelectsExactlyWithinRadius ==
  (nearbyDone /\ probe.result.kind = "list") =>
    {probe.result.nearby[i].monument : i \in 1..Len(probe.result.nearby)} = WithinRadius

\* C23: an invocation with a radius that is not positive, or with a latitude or
\* longitude out of range, issues no upstream request and ends with an error
C23_RejectedBeforeAnyRequest ==
  (/\ probe.fn = "discover_nearby_monuments"
   /\ \/ probe.radius_meters <= 0
      \/ probe.latitude.t = "number" /\ ~(probe.latitude.v \in (-90 * Deg)..(90 * Deg))
      \/ probe.longitude.t = "number" /\ ~(probe.longitude.v \in (-180 * Deg)..(180 * Deg)))
  => /\ probe.requests = 0
     /\ probe.pc = "done" => probe.result.kind = "error"

\* the candidates with a finite latitude and longitude, and their best score
FiniteCandidates ==
  {l \in {probe.candidates[i] : i \in 1..Len(probe.candidates)} :
     l.latitude.t = "number" /\ l.longitude.t = "number"}

ScoreOf(l) == scoreLocationMatch(l, TrimSpaces(probe.query))

\* C24: the place name resolves to the coordinates of a candidate whose score
\* is the highest among the candidates with finite coordinates, when that
\* score is positive; it stays unresolved when the query is blank, when no
\* candidate has finite coordinates, when every score is 0, or when the
\* locations could not be fetched
C24_BestPositiveMatch ==
  (probe.fn = "resolveCoordinatesFromQuery" /\ probe.pc = "done") =>
    IF \/ StripSpaces(probe.query) = <<>>
       \/ probe.failed
       \/ FiniteCandidates = {}
       \/ \A l \in FiniteCandidates : ScoreOf(l) = 0
    THEN probe.result = Unresolved
    ELSE \E l \in FiniteCandidates :
           /\ \A k \in FiniteCandidates : ScoreOf(k) <= ScoreOf(l)
           /\ ScoreOf(l) > 0
           /\ probe.result = Location(l.latitude, l.longitude)

\* the second of three candidates won: the first has no coordinates, the
\* third a lower score
C24_Witness ==
  /\ probe.fn = "resolveCoordinatesFromQuery" /\ probe.pc = "done"
  /\ probe.query = <<" ", "a", "b", " ">>
  /\ Len(probe.candidates) = 3
  /\ probe.candidates[1].id = 4 /\ probe.candidates[2].id = 3 /\ probe.candidates[3].id = 6
  /\ probe.result = Location(Num(6 * Deg), Num(141 * Deg))

\* the monuments with a valid coordinate pair: a first location whose
\* latitude and longitude are numbers
WithCoordinates ==
  SelectSeq(probe.monuments,
            LAMBDA m : /\ Len(m.locations) > 0
                       /\ m.locations[1].latitude.t = "number"
                       /\ m.locations[1].longitude.t = "number")

\* C26: the conversion yields, in input order, exactly one feature with the
\* coordinates [longitude, latitude] for every monument that has a valid
\* coordinate pair, and leaves the other monuments out
C26_OmitsWithoutCoordinates ==
  (probe.fn = "convertToGeoJSON" /\ probe.done) =>
    /\ probe.result.kind = "FeatureCollection"
    /\ probe.result.features =
         [i \in 1..Len(WithCoordinates) |->
            Feature(WithCoordinates[i].id,
                    <<WithCoordinates[i].locations[1].longitude,
                      WithCoordinates[i].locations[1].latitude>>)]

\* the position at which an id is first seen in a sequence of ids
FirstSeen(ids, id) == CHOOSE i \in 1..Len(ids) : ids[i] = id /\ \A j \in 1..(i - 1) : ids[j] # id

\* C27: the answer of find_similar_monuments has no id twice, holds at most
\* limit monuments, lists them in first-seen order with the monuments reached
\* through poems before those found only by inscription text, and the
\* fallback page is requested only when both stages produced no monument
C27_MergedInFirstSeenOrder ==
  (probe.fn = "find_similar_monuments") =>
    /\ probe.fallback => probe.monumentsFromPoems = <<>> /\ probe.inscriptionMatches = <<>>
    /\ (probe.pc = "done" /\ probe.result.kind = "list") =>
         LET monuments == probe.result.monuments
             seen == probe.monumentsFromPoems \o probe.inscriptionMatches
                     \o probe.fallbackMonuments
         IN  /\ \A i, j \in 1..Len(monuments) : monuments[i] = monuments[j] => i = j
             /\ Len(monuments) <= probe.limit
             /\ \A i \in 1..Len(monuments) : \E k \in 1..Len(seen) : seen[k] = monuments[i]
             /\ \A i, j \in 1..Len(monuments) :
                  i < j => FirstSeen(seen, monuments[i]) < FirstSeen(seen, monuments[j])

====
